---- MODULE Spec2Model ----
(***************************************************************************)
(* Bill lifecycle and settlement of vibe-financas: the two bill forms, the *)
(* bill payment form, the finance provider's collections and the ledger    *)
(* operations they call.                                                   *)
(*                                                                         *)
(* Identifiers are positive integers ('' is EmptyId), calendar dates are   *)
(* integers yyyymmdd (so that integer order is date order), and null is    *)
(* Null.                                                                   *)
(***************************************************************************)
EXTENDS Integers, Sequences, FiniteSets, TLC

VARIABLES
    bills,          \* the bills table / provider collection, in insertion order
    transactions,   \* the provider's transactions array
    categories,     \* the provider's categories array
    accounts,       \* the provider's accounts array
    uuid,           \* per collection, how many fresh ids have been drawn
    sbForm,         \* state of the BillForm of src/components/BillForm.tsx
    ctxForm,        \* state of the BillForm that calls addBill
    payForm,        \* state of each open BillPaymentForm, per client
    billsPage,      \* the bills page: clock, tab and the list it displays
    dashboard,      \* the dashboard: clock and the chart data of its effect
    provider,       \* the finance provider: what its last render closed over
    requests,       \* calls of the forms that have not been answered yet
    tz              \* the time zone of the browser: hours ahead of UTC

vars == <<bills, transactions, categories, accounts, uuid, sbForm, ctxForm, payForm,
          billsPage, dashboard, provider, requests, tz>>

-----------------------------------------------------------------------------
(* Bounds of the model *)

MaxBills == 1           \* bills ever inserted through the forms
MaxPayments == 1        \* payments made from the bills page
MaxChain == 3           \* bills of a chain that is being paid
MaxRaced == 2           \* bills of a ledger that two clients pay from
MaxTransactions == 1    \* transactions ever added to the default ones
MaxAccounts == 1        \* accounts ever added to the default ones
MaxInstallments == 3    \* largest number typed into a "number of installments" input
MaxCreated == 2         \* bills ever inserted while the categories are maintained
MaxRequests == 2        \* calls in flight at a time, of forms that are raced
MaxPending == 1         \* calls in flight at a time, of the other forms
MaxMoved == 2           \* days before today a stored date is moved to by saves

-----------------------------------------------------------------------------
(* Values *)

Null == -1
EmptyId == 0
UuidBase == 100

Today == 20240105

\* The time zones of the browsers: hours ahead of UTC.
TimeZones == {-3, 0, 2}

\* The first day of the model's calendar: a save in a time zone behind UTC
\* moves a stored date one day back, up to MaxMoved days before today.
FirstDay == Today - MaxMoved

InCalendar(d) == d = Null \/ d >= FirstDay

RecurrenceTypes == {"weekly", "monthly", "yearly"}
NoType == "null"

TransactionTypes == {"income", "expense"}
AccountTypes == {"bank", "cash", "credit", "investment"}

Min(a, b) == IF a <= b THEN a ELSE b

SeqToSet(s) == {s[i] : i \in 1..Len(s)}

-----------------------------------------------------------------------------
(* Calendar arithmetic *)

Year(d) == d \div 10000
Month(d) == (d \div 100) % 100
Day(d) == d % 100
MkDate(y, m, d) == y * 10000 + m * 100 + d

IsLeap(y) == (y % 4 = 0 /\ y % 100 # 0) \/ y % 400 = 0

DaysInMonth(y, m) ==
    IF m = 2 THEN (IF IsLeap(y) THEN 29 ELSE 28)
    ELSE IF m \in {4, 6, 9, 11} THEN 30 ELSE 31

\* One calendar month k times: same day-of-month, clamped to the month's last day.
AddMonths(d, k) ==
    LET t == Year(d) * 12 + (Month(d) - 1) + k
        y == t \div 12
        m == (t % 12) + 1
    IN MkDate(y, m, Min(Day(d), DaysInMonth(y, m)))

\* n days later, for n no longer than a month.
AddDays(d, n) ==
    LET dim == DaysInMonth(Year(d), Month(d))
    IN IF Day(d) + n <= dim
       THEN d + n
       ELSE LET f == AddMonths(MkDate(Year(d), Month(d), 1), 1)
            IN f + (Day(d) + n - dim - 1)

advance(dueDate, recurrenceType) ==
    CASE recurrenceType = "weekly" -> AddDays(dueDate, 7)
      [] recurrenceType = "monthly" -> AddMonths(dueDate, 1)
      [] recurrenceType = "yearly" -> AddMonths(dueDate, 12)
      [] OTHER -> dueDate

\* A moment is the local wall-clock time yyyymmddhh, so that integer order is
\* the order of time; the time zone is the hours the local clock is ahead of
\* UTC.
DateOf(w) == w \div 100

PrevDay(d) ==
    IF Day(d) > 1 THEN d - 1
    ELSE IF Month(d) > 1
         THEN MkDate(Year(d), Month(d) - 1, DaysInMonth(Year(d), Month(d) - 1))
         ELSE MkDate(Year(d) - 1, 12, 31)

\* new Date('yyyy-MM-dd'): midnight UTC of that day, on the local clock.
NewDateOfString(d, zone) ==
    IF zone >= 0 THEN d * 100 + zone ELSE PrevDay(d) * 100 + (24 + zone)

\* format(new Date('yyyy-MM-dd'), 'yyyy-MM-dd'): the local day of that moment;
\* null stays null.
LocalDay(d, zone) == IF d = Null THEN Null ELSE DateOf(NewDateOfString(d, zone))

-----------------------------------------------------------------------------
(* parseFloat / Number on the amount texts the forms are given *)

\* The value that is not a number; no amount text of the model parses to it.
NaN == -1000000

IsNaN(x) == x = NaN

\* parseFloat(text): the longest numeric prefix, NaN when there is none.
ParseFloat(s) ==
    CASE s = "100" -> 100
      [] s = "600" -> 600
      [] s = "5" -> 5
      [] s = "0" -> 0
      [] s = "-5" -> -5
      [] s = "150,00" -> 150
      [] OTHER -> NaN

\* Number(text): the whole text as a number, 0 for '', NaN otherwise.
Number(s) ==
    CASE s = "100" -> 100
      [] s = "600" -> 600
      [] s = "5" -> 5
      [] s = "0" -> 0
      [] s = "-5" -> -5
      [] s = "" -> 0
      [] OTHER -> NaN

\* value.replace(/[^0-9.,]/g, ''): what the amount input of the form that
\* calls addBill keeps of a typed text.
AmountFilter(s) ==
    CASE s = "-5" -> "5"
      [] s = "abc" -> ""
      [] OTHER -> s

-----------------------------------------------------------------------------
(* Rows *)

Bill(id, description, amount, dueDate, categoryId, status, isInstallment, totalInstallments, currentInstallment, parentBillId, isRecurring, recurrenceType, recurrenceEndDate) ==
    [id |-> id, description |-> description, amount |-> amount,
     dueDate |-> dueDate, categoryId |-> categoryId, status |-> status,
     isInstallment |-> isInstallment, totalInstallments |-> totalInstallments,
     currentInstallment |-> currentInstallment, parentBillId |-> parentBillId,
     isRecurring |-> isRecurring, recurrenceType |-> recurrenceType,
     recurrenceEndDate |-> recurrenceEndDate]

Ids(coll) == {coll[i].id : i \in 1..Len(coll)}

Find(coll, id) == coll[CHOOSE i \in 1..Len(coll) : coll[i].id = id]

-----------------------------------------------------------------------------
(* The provider's default data *)

Category(id, name, type) == [id |-> id, name |-> name, type |-> type]

defaultCategories ==
    << Category(1, "Alimentacao", "expense"),
       Category(2, "Transporte", "expense"),
       Category(3, "Lazer", "expense"),
       Category(4, "Saude", "expense"),
       Category(5, "Educacao", "expense"),
       Category(6, "Moradia", "expense"),
       Category(7, "Salario", "income"),
       Category(8, "Freelancer", "income"),
       Category(9, "Investimentos", "income") >>

Account(id, name, balance, type) ==
    [id |-> id, name |-> name, balance |-> balance, type |-> type]

defaultAccounts ==
    << Account(1, "Carteira", 500, "cash"),
       Account(2, "Banco", 2000, "bank") >>

Transaction(id, type, amount, date, categoryId, accountId, description) ==
    [id |-> id, type |-> type, amount |-> amount, date |-> date,
     categoryId |-> categoryId, accountId |-> accountId,
     description |-> description]

defaultTransactions ==
    << Transaction(1, "expense", 50, 20230515, 1, 1, "Almoco"),
       Transaction(2, "expense", 100, 20230516, 2, 1, "Uber"),
       Transaction(3, "income", 3000, 20230505, 7, 2, "Salario mensal") >>

-----------------------------------------------------------------------------
(* Calls in flight, and the close handlers of the bills page *)

\* A call a form awaits: the form and the client that sent it, whether that
\* form is still mounted, the arguments of the call, and the answer of the
\* store once the store has executed a write sent to it.
Request(form, c, bill, data) ==
    [form |-> form, client |-> c, live |-> TRUE, bill |-> bill, data |-> data,
     answer |-> "none"]

Without(reqs, i) == SubSeq(reqs, 1, i - 1) \o SubSeq(reqs, i + 1, Len(reqs))

\* The form of a sheet that closes is unmounted: the calls it awaits go on,
\* and what they set on the form afterwards is lost.
Unmounted(reqs, form, c) ==
    [i \in 1..Len(reqs) |->
        IF reqs[i].form = form /\ reqs[i].client = c
        THEN [reqs[i] EXCEPT !.live = FALSE] ELSE reqs[i]]

\* A component that is not mounted.
NoBillsPage == [mounted |-> FALSE]
NoDashboard == [mounted |-> FALSE]
NoProvider == [mounted |-> FALSE]

\* The payment form before it is opened and after it is closed.
PayClosed ==
    [open |-> FALSE, billId |-> Null, accountId |-> EmptyId,
     isSubmitting |-> FALSE, disabled |-> FALSE]

\* The React tree of client 1 is mounted until a render of it throws.
TreeMounted == ~ctxForm.crashed

\* The calls of a tree that was unmounted go on; what they set on its
\* components afterwards is lost.
TreeUnmounted(reqs) ==
    [i \in 1..Len(reqs) |->
        IF reqs[i].client = 1 THEN [reqs[i] EXCEPT !.live = FALSE] ELSE reqs[i]]

\* A select of the bills is sent: the query is in flight, not yet answered by
\* the store.
QuerySent(page) ==
    [page EXCEPT !.issued = @ + 1,
                 !.inflight = @ \cup {[q |-> page.issued + 1, ran |-> FALSE,
                                       data |-> << >>]}]

\* handleAddBillClose, after setIsAddingBill(false): the page that loads its
\* own list sends the refresh select; the page that lists the provider's bills
\* has onClose={() => setIsAddingBill(false)} and sends nothing.
handleAddBillClose(page) == IF page.mounted THEN QuerySent(page) ELSE page

\* handlePayBillClose, after setIsPayingBill(false) and setSelectedBill(null);
\* the page that loads its own list is the page of client 1.
handlePayBillClose(page, c) ==
    IF c = 1 /\ page.mounted THEN QuerySent(page) ELSE page

\* The selects of the page are counted up to a bound.
LoadsLeft(in) == billsPage.mounted => billsPage.issued < in.maxLoads

-----------------------------------------------------------------------------
(* BillForm of src/components/BillForm.tsx: writes the bills table directly *)

\* The form before it is opened and after it is closed.
SbClosed ==
    [open |-> FALSE, bill |-> Null, due_date |-> Today, is_paid |-> FALSE,
     is_recurring |-> FALSE, recurrence_type |-> NoType,
     recurrence_end_date |-> Null, is_installment |-> FALSE,
     total_installments |-> Null, isSubmitting |-> FALSE, disabled |-> FALSE]

\* useForm defaultValues: from the bill being edited, or a blank form.
SbDefaultValues(target) ==
    IF target = Null
    THEN [SbClosed EXCEPT !.open = TRUE]
    ELSE LET b == Find(bills, target)
         IN [open |-> TRUE, bill |-> target,
             due_date |-> LocalDay(b.dueDate, tz),
             is_paid |-> (b.status = "paid"),
             is_recurring |-> b.isRecurring,
             recurrence_type |-> b.recurrenceType,
             recurrence_end_date |-> LocalDay(b.recurrenceEndDate, tz),
             is_installment |-> b.isInstallment,
             total_installments |-> b.totalInstallments,
             isSubmitting |-> FALSE, disabled |-> FALSE]

\* One run of the "reset related fields" effect.
SbEffectOnce(f) ==
    LET f1 == IF ~f.is_recurring
              THEN [f EXCEPT !.recurrence_type = NoType,
                             !.recurrence_end_date = Null]
              ELSE f
        f2 == IF ~f.is_installment
              THEN [f1 EXCEPT !.total_installments = Null]
              ELSE f1
    IN IF f.is_recurring /\ f.is_installment
       THEN [f2 EXCEPT !.is_installment = FALSE]
       ELSE f2

\* The effect re-runs when it changes one of the watched switches.
SbEffect(f) == SbEffectOnce(SbEffectOnce(f))

\* The "Parcelado" switch, and the effect its re-render runs.
SbSetIsInstallment(f, checked) ==
    LET g == [f EXCEPT !.is_installment = checked]
    IN SbEffect(IF checked THEN [g EXCEPT !.is_recurring = FALSE] ELSE g)

\* A switch wired like the "Pago" one: onCheckedChange={field.onChange}.
SbSetIsRecurringOnly(f, checked) ==
    [f EXCEPT !.is_recurring = checked]

\* The "Recorrente" switch, and the effect its re-render runs.
SbSetIsRecurring(f, checked) ==
    LET g == [f EXCEPT !.is_recurring = checked]
    IN SbEffect(IF checked THEN [g EXCEPT !.is_installment = FALSE] ELSE g)

\* An amount check that refuses only what is not a number.
SbAmountOkNumber(amountText) ==
    ~IsNaN(ParseFloat(amountText))

\* The amount check, in the schema's refine and again in onSubmit.
SbAmountOk(amountText) ==
    ~IsNaN(ParseFloat(amountText)) /\ ParseFloat(amountText) > 0

\* The zod schema, on the fields a user can get wrong.
SbSchemaOk(description, amountText, category_id) ==
    /\ Len(description) >= 3
    /\ SbAmountOk(amountText)
    /\ category_id # EmptyId

\* billData of onSubmit.
SbBillData(f, description, amountText, category_id) ==
    [description |-> description,
     amount |-> ParseFloat(amountText),
     due_date |-> f.due_date,
     category_id |-> category_id,
     status |-> IF f.is_paid THEN "paid" ELSE "pending",
     is_recurring |-> f.is_recurring,
     recurrence_type |-> IF f.is_recurring THEN f.recurrence_type ELSE NoType,
     recurrence_end_date |->
         IF f.is_recurring /\ f.recurrence_end_date # Null
         THEN f.recurrence_end_date ELSE Null,
     is_installment |-> f.is_installment,
     total_installments |->
         IF f.is_installment /\ f.total_installments # Null
         THEN f.total_installments ELSE Null]

\* supabase.from("bills").insert(billData): columns not given default to null.
SbInsertRow(id, d) ==
    Bill(id, d.description, d.amount, d.due_date, d.category_id,
         d.status, d.is_installment, d.total_installments, Null, Null,
         d.is_recurring, d.recurrence_type, d.recurrence_end_date)

\* supabase.from("bills").update(billData).eq("id", id): the other columns stay.
SbUpdateRow(b, d) ==
    [b EXCEPT !.description = d.description, !.amount = d.amount,
              !.dueDate = d.due_date, !.categoryId = d.category_id,
              !.status = d.status, !.isInstallment = d.is_installment,
              !.totalInstallments = d.total_installments,
              !.isRecurring = d.is_recurring,
              !.recurrenceType = d.recurrence_type,
              !.recurrenceEndDate = d.recurrence_end_date]

FreshId(k) == UuidBase + uuid[k] + 1

Drawn(k, n) == [uuid EXCEPT ![k] = @ + n]

\* One sheet is open at a time: a bill form or the client's payment form.
SbOpen ==
    /\ TreeMounted
    /\ ~sbForm.open /\ ~ctxForm.open /\ ~payForm[1].open
    /\ \E target \in {Null} \cup Ids(bills) :
           sbForm' = SbEffect(SbDefaultValues(target))
    /\ UNCHANGED <<bills, transactions, categories, accounts, uuid, ctxForm, payForm,
                 billsPage, dashboard, provider, requests, tz>>

SbToggleInstallment ==
    /\ sbForm.open
    /\ sbForm' = SbSetIsInstallment(sbForm, ~sbForm.is_installment)
    /\ UNCHANGED <<bills, transactions, categories, accounts, uuid, ctxForm, payForm,
                 billsPage, dashboard, provider, requests, tz>>

SbToggleRecurring ==
    /\ sbForm.open
    /\ sbForm' = SbSetIsRecurring(sbForm, ~sbForm.is_recurring)
    /\ UNCHANGED <<bills, transactions, categories, accounts, uuid, ctxForm, payForm,
                 billsPage, dashboard, provider, requests, tz>>

SbTogglePaid ==
    /\ sbForm.open
    /\ sbForm' = [sbForm EXCEPT !.is_paid = ~sbForm.is_paid]
    /\ UNCHANGED <<bills, transactions, categories, accounts, uuid, ctxForm, payForm,
                 billsPage, dashboard, provider, requests, tz>>

\* The installments input is rendered while is_installment; it keeps '' or a
\* text whose parseInt is positive.
SbTypeInstallments ==
    /\ sbForm.open /\ sbForm.is_installment
    /\ \E n \in {Null} \cup (1..MaxInstallments) :
           sbForm' = [sbForm EXCEPT !.total_installments = n]
    /\ UNCHANGED <<bills, transactions, categories, accounts, uuid, ctxForm, payForm,
                 billsPage, dashboard, provider, requests, tz>>

\* The recurrence fields are rendered while is_recurring; the end-date calendar
\* disables every day before now, today included.
SbPickRecurrence(in) ==
    /\ sbForm.open /\ sbForm.is_recurring
    /\ \/ \E t \in in.types :
              sbForm' = [sbForm EXCEPT !.recurrence_type = t]
       \/ \E d \in {e \in in.endDates : ~(e <= Today)} :
              sbForm' = [sbForm EXCEPT !.recurrence_end_date = d]
    /\ UNCHANGED <<bills, transactions, categories, accounts, uuid, ctxForm, payForm,
                 billsPage, dashboard, provider, requests, tz>>

SbPickDueDate(in) ==
    /\ sbForm.open
    /\ \E d \in in.dueDates : sbForm' = [sbForm EXCEPT !.due_date = d]
    /\ UNCHANGED <<bills, transactions, categories, accounts, uuid, ctxForm, payForm,
                 billsPage, dashboard, provider, requests, tz>>

\* form.handleSubmit(onSubmit) up to the awaited write.  The submit event comes
\* from the rendered form, whose button carries the isSubmitting of the last
\* render.  A form the schema refuses does not reach onSubmit; onSubmit sets
\* isSubmitting, checks the amount again (a failed check returns through
\* finally) and sends the update or the insert.  The select lists the rows of
\* the categories table.
SbSubmit(in) ==
    /\ sbForm.open /\ ~sbForm.disabled
    /\ Len(requests) < in.maxRequests
    /\ \E description \in in.descriptions, amountText \in in.amountTexts,
          category_id \in in.categoryIds \cup {EmptyId} :
          IF ~SbSchemaOk(description, amountText, category_id)
          THEN UNCHANGED <<sbForm, requests>>
          ELSE IF ~SbAmountOk(amountText)
          THEN /\ sbForm' = [sbForm EXCEPT !.isSubmitting = FALSE]
               /\ UNCHANGED requests
          ELSE /\ sbForm' = [sbForm EXCEPT !.isSubmitting = TRUE]
               /\ requests' = Append(requests,
                      Request("sb", 1, sbForm.bill,
                              SbBillData(sbForm, description, amountText,
                                         category_id)))
    /\ UNCHANGED <<bills, transactions, categories, accounts, uuid, ctxForm, payForm,
                 billsPage, dashboard, provider, tz>>

\* The re-render after setIsSubmitting: disabled={isSubmitting || ...}.
SbRender ==
    /\ sbForm.open /\ sbForm.disabled # sbForm.isSubmitting
    /\ sbForm' = [sbForm EXCEPT !.disabled = sbForm.isSubmitting]
    /\ UNCHANGED <<bills, transactions, categories, accounts, uuid, ctxForm, payForm,
                 billsPage, dashboard, provider, requests, tz>>

\* The store executes one write that was sent to it: the update or the
\* insert changes the table, an error or a request that fails changes
\* nothing.  The answer is on its way to the form that awaits it.
SbStoreRuns(in) ==
    /\ \E i \in 1..Len(requests), outcome \in {"ok", "error", "thrown"} :
          LET r == requests[i]
          IN /\ r.form = "sb" /\ r.answer = "none"
             /\ requests' = [requests EXCEPT ![i].answer = outcome]
             /\ IF outcome # "ok"
                THEN UNCHANGED <<bills, uuid>>
                ELSE /\ InCalendar(r.data.due_date)
                     /\ InCalendar(r.data.recurrence_end_date)
                     /\ IF r.bill # Null
                        THEN /\ bills' = [j \in 1..Len(bills) |->
                                             IF bills[j].id = r.bill
                                             THEN SbUpdateRow(bills[j], r.data)
                                             ELSE bills[j]]
                             /\ UNCHANGED uuid
                        ELSE /\ uuid.bills < in.maxBills
                             /\ bills' = Append(bills,
                                    SbInsertRow(FreshId("bills"), r.data))
                             /\ uuid' = Drawn("bills", 1)
    /\ UNCHANGED <<transactions, categories, accounts, sbForm, ctxForm, payForm,
                 billsPage, dashboard, provider, tz>>

\* The answer of one write arrives, and onSubmit goes on.  An error result or
\* a thrown exception leaves the sheet as it is.  After a write that
\* succeeded onClose runs: the sheet that is open is closed and the page sends
\* its refresh.  finally clears isSubmitting of the form that sent the write,
\* when it is still mounted.
SbStoreAnswers(in) ==
    /\ \E i \in 1..Len(requests) :
          LET r == requests[i]
          IN /\ r.form = "sb" /\ r.answer # "none"
             /\ IF r.answer # "ok"
                THEN /\ sbForm' = IF r.live
                                  THEN [sbForm EXCEPT !.isSubmitting = FALSE]
                                  ELSE sbForm
                     /\ requests' = Without(requests, i)
                     /\ UNCHANGED billsPage
                ELSE /\ LoadsLeft(in)
                     /\ sbForm' = SbClosed
                     /\ requests' = Unmounted(Without(requests, i), "sb", 1)
                     /\ billsPage' = handleAddBillClose(billsPage)
    /\ UNCHANGED <<bills, transactions, categories, accounts, uuid, ctxForm,
                 payForm, dashboard, provider, tz>>

\* The sheet is dismissed: onOpenChange={setIsAddingBill}.
SbCancel ==
    /\ sbForm.open
    /\ sbForm' = SbClosed
    /\ requests' = Unmounted(requests, "sb", 1)
    /\ UNCHANGED <<bills, transactions, categories, accounts, uuid, ctxForm, payForm,
                 billsPage, dashboard, provider, tz>>

-----------------------------------------------------------------------------
(* Bill creation of the ledger: addBill and the Installment Expander *)

\* A request is valid when it satisfies the Bill data model.
ValidBillRequest(req) ==
    /\ ~IsNaN(req.amount) /\ req.amount > 0
    /\ \E i \in 1..Len(categories) :
           categories[i].id = req.categoryId /\ categories[i].type = "expense"
    /\ ~(req.isInstallment /\ req.isRecurring)
    /\ req.isInstallment => req.totalInstallments >= 2
    /\ req.isRecurring => req.recurrenceType \in RecurrenceTypes
    /\ req.recurrenceEndDate # Null => req.recurrenceEndDate > req.dueDate

\* An expander that advances each sibling's due date from the sibling before it.
RECURSIVE StepwiseDue(_, _)
StepwiseDue(d, k) == IF k = 0 THEN d ELSE AddMonths(StepwiseDue(d, k - 1), 1)

materializeStepwise(req, firstId) ==
    [k \in 1..req.totalInstallments |->
        Bill(firstId + k - 1, req.description, req.amount,
             StepwiseDue(req.dueDate, k - 1), req.categoryId, "pending",
             TRUE, req.totalInstallments, k,
             IF k = 1 THEN Null ELSE firstId,
             FALSE, NoType, Null)]

\* materialize: the N siblings of an installment request, one month apart, the
\* first one being the parent the others name.
materialize(req, firstId) ==
    [k \in 1..req.totalInstallments |->
        Bill(firstId + k - 1, req.description, req.amount,
             AddMonths(req.dueDate, k - 1), req.categoryId, "pending",
             TRUE, req.totalInstallments, k,
             IF k = 1 THEN Null ELSE firstId,
             FALSE, NoType, Null)]

\* The rows one creation request stores, as one atomic batch.
addBillRows(req, firstId) ==
    IF req.isInstallment
    THEN materialize(req, firstId)
    ELSE << Bill(firstId, req.description, req.amount, req.dueDate,
                 req.categoryId, "pending", FALSE, Null, Null, Null,
                 req.isRecurring, req.recurrenceType, req.recurrenceEndDate) >>

-----------------------------------------------------------------------------
(* BillForm that calls addBill *)

\* The form before it is opened and after it is closed: no category is
\* picked.
CtxClosed ==
    [open |-> FALSE, categoryId |-> Null, dueDate |-> Today,
     isInstallment |-> FALSE,
     totalInstallments |-> 1, isRecurring |-> FALSE,
     recurrenceType |-> "monthly", recurrenceEndDate |-> Null,
     isSubmitting |-> FALSE, crashed |-> FALSE]

\* The form after a render of it threw: nothing of the tree is left.
CtxCrashed == [CtxClosed EXCEPT !.crashed = TRUE]

\* The "Parcelado" switch.
CtxSetIsInstallment(f, checked) ==
    LET g == [f EXCEPT !.isInstallment = checked]
    IN IF checked /\ f.isRecurring THEN [g EXCEPT !.isRecurring = FALSE] ELSE g

\* The "Conta Recorrente" switch.
CtxSetIsRecurring(f, checked) ==
    LET g == [f EXCEPT !.isRecurring = checked]
    IN IF checked /\ f.isInstallment THEN [g EXCEPT !.isInstallment = FALSE] ELSE g

\* Number(text) of the installments text: '' (Null here) is 0.
NumberOfText(t) == IF t = Null THEN 0 ELSE t

\* The installments input's min={2}: the browser refuses to submit a rendered
\* input holding a number below it; an empty input passes.
CtxMinOk(f) ==
    f.isInstallment /\ f.totalInstallments # Null => f.totalInstallments >= 2

\* The schema sees the amount text the input kept.
CtxSchemaOk(description, amountText, categoryId) ==
    /\ Len(description) >= 3
    /\ ~IsNaN(Number(AmountFilter(amountText)))
    /\ Number(AmountFilter(amountText)) > 0
    /\ categoryId # Null

\* The argument onSubmit gives addBill.
CtxBillRequest(f, description, amountText, categoryId) ==
    [description |-> description,
     amount |-> Number(AmountFilter(amountText)),
     dueDate |-> f.dueDate,
     categoryId |-> categoryId,
     status |-> "pending",
     isInstallment |-> f.isInstallment,
     totalInstallments |->
         IF f.isInstallment THEN NumberOfText(f.totalInstallments) ELSE Null,
     currentInstallment |-> IF f.isInstallment THEN 1 ELSE Null,
     parentBillId |-> Null,
     isRecurring |-> f.isRecurring,
     recurrenceType |-> IF f.isRecurring THEN f.recurrenceType ELSE NoType,
     recurrenceEndDate |-> IF f.isRecurring THEN f.recurrenceEndDate ELSE Null]

\* The select lists the expense categories only.
expenseCategories ==
    {categories[i].id : i \in {j \in 1..Len(categories) : categories[j].type = "expense"}}

CtxOpen ==
    /\ TreeMounted
    /\ ~ctxForm.open /\ ~sbForm.open /\ ~payForm[1].open
    /\ ctxForm' = [CtxClosed EXCEPT !.open = TRUE]
    /\ UNCHANGED <<bills, transactions, categories, accounts, uuid, sbForm, payForm,
                 billsPage, dashboard, provider, requests, tz>>

CtxToggleInstallment ==
    /\ ctxForm.open
    /\ ctxForm' = CtxSetIsInstallment(ctxForm, ~ctxForm.isInstallment)
    /\ UNCHANGED <<bills, transactions, categories, accounts, uuid, sbForm, payForm,
                 billsPage, dashboard, provider, requests, tz>>

CtxToggleRecurring ==
    /\ ctxForm.open
    /\ ctxForm' = CtxSetIsRecurring(ctxForm, ~ctxForm.isRecurring)
    /\ UNCHANGED <<bills, transactions, categories, accounts, uuid, sbForm, payForm,
                 billsPage, dashboard, provider, requests, tz>>

CtxTypeInstallments ==
    /\ ctxForm.open /\ ctxForm.isInstallment
    /\ \E n \in {Null} \cup (1..MaxInstallments) :
           ctxForm' = [ctxForm EXCEPT !.totalInstallments = n]
    /\ UNCHANGED <<bills, transactions, categories, accounts, uuid, sbForm, payForm,
                 billsPage, dashboard, provider, requests, tz>>

\* The end-date calendar disables every day up to the due date the form holds
\* when the day is picked.
CtxPickRecurrence(in) ==
    /\ ctxForm.open /\ ctxForm.isRecurring
    /\ \/ \E t \in in.types :
              ctxForm' = [ctxForm EXCEPT !.recurrenceType = t]
       \/ \E d \in {e \in in.endDates : ~(e <= ctxForm.dueDate)} :
              ctxForm' = [ctxForm EXCEPT !.recurrenceEndDate = d]
    /\ UNCHANGED <<bills, transactions, categories, accounts, uuid, sbForm, payForm,
                 billsPage, dashboard, provider, requests, tz>>

\* The due-date calendar disables the days before today.
CtxPickDueDate(in) ==
    /\ ctxForm.open
    /\ \E d \in {e \in in.dueDates : ~(e < Today)} :
           ctxForm' = [ctxForm EXCEPT !.dueDate = d]
    /\ UNCHANGED <<bills, transactions, categories, accounts, uuid, sbForm, payForm,
                 billsPage, dashboard, provider, requests, tz>>

\* A category is picked in the select, which offers the expense categories
\* of the render; the form keeps the pick, whatever becomes of the category.
CtxPickCategory(in) ==
    /\ ctxForm.open
    /\ \E categoryId \in expenseCategories \cap in.categoryIds :
           ctxForm' = [ctxForm EXCEPT !.categoryId = categoryId]
    /\ UNCHANGED <<bills, transactions, categories, accounts, uuid, sbForm, payForm,
                 billsPage, dashboard, provider, requests, tz>>

\* form.handleSubmit(onSubmit) up to the awaited addBill: setIsSubmitting(true)
\* and the call, with the category the form holds.  A form the schema or the
\* browser refuses does not reach onSubmit.  No render of this form shows a
\* disabled button (CtxRender), so the form can be submitted again while a
\* call is in flight.
CtxSubmit(in) ==
    /\ ctxForm.open
    /\ Len(requests) < in.maxRequests
    /\ \E description \in in.descriptions, amountText \in in.amountTexts :
          IF \/ ~CtxSchemaOk(description, amountText, ctxForm.categoryId)
             \/ ~CtxMinOk(ctxForm)
          THEN UNCHANGED <<ctxForm, requests>>
          ELSE /\ ctxForm' = [ctxForm EXCEPT !.isSubmitting = TRUE]
               /\ requests' = Append(requests,
                      Request("ctx", 1, Null,
                              CtxBillRequest(ctxForm, description, amountText,
                                             ctxForm.categoryId)))
    /\ UNCHANGED <<bills, transactions, categories, accounts, uuid, sbForm, payForm,
                 billsPage, dashboard, provider, tz>>

\* The render that finds isSubmitting true evaluates <Loader2 />, a name the
\* module does not import: the render throws a ReferenceError, no component
\* of the sources catches it, and React unmounts the tree.  The call that was
\* sent goes on.  A render that finds isSubmitting false shows the form as it
\* was.  Whether a render comes before the answer of addBill depends on
\* addBill, which the sources do not hold: the steps take either order.
CtxRender ==
    /\ ctxForm.open /\ ctxForm.isSubmitting
    /\ ctxForm' = CtxCrashed
    /\ sbForm' = SbClosed
    /\ payForm' = [payForm EXCEPT ![1] = PayClosed]
    /\ billsPage' = NoBillsPage
    /\ dashboard' = NoDashboard
    /\ provider' = NoProvider
    /\ requests' = TreeUnmounted(requests)
    /\ UNCHANGED <<bills, transactions, categories, accounts, uuid, tz>>

\* addBill is called by a consumer of the provider other than the form, with
\* one of the requests on offer.
AddBillCalled(in) ==
    /\ Len(requests) < in.maxRequests
    /\ \E req \in in.billRequests :
           requests' = Append(requests, Request("call", 2, Null, req))
    /\ UNCHANGED <<bills, transactions, categories, accounts, uuid, sbForm, ctxForm,
                 payForm, billsPage, dashboard, provider, tz>>

\* addBill executes one call as one atomic unit: a request that is not valid
\* is rejected and a store that fails writes nothing; otherwise the rows of
\* the request are stored as one batch.  The answer is on its way to the
\* caller.
AddBillRuns(in) ==
    /\ \E i \in 1..Len(requests), storeOk \in BOOLEAN :
          LET r == requests[i]
              rows == addBillRows(r.data, FreshId("bills"))
          IN /\ r.form \in {"ctx", "call"} /\ r.answer = "none"
             /\ IF ~ValidBillRequest(r.data)
                THEN /\ requests' = [requests EXCEPT ![i].answer = "ValidationError"]
                     /\ UNCHANGED <<bills, uuid>>
                ELSE IF ~storeOk
                THEN /\ requests' = [requests EXCEPT ![i].answer = "StoreUnavailable"]
                     /\ UNCHANGED <<bills, uuid>>
                ELSE /\ uuid.bills + Len(rows) <= in.maxBills
                     /\ bills' = bills \o rows
                     /\ uuid' = Drawn("bills", Len(rows))
                     /\ requests' = [requests EXCEPT ![i].answer = "ok"]
    /\ UNCHANGED <<transactions, categories, accounts, sbForm, ctxForm, payForm,
                 billsPage, dashboard, provider, tz>>

\* The answer of addBill reaches the consumer that called it.
AddBillReturns ==
    /\ \E i \in 1..Len(requests) :
          /\ requests[i].form = "call" /\ requests[i].answer # "none"
          /\ requests' = Without(requests, i)
    /\ UNCHANGED <<bills, transactions, categories, accounts, uuid, sbForm, ctxForm,
                 payForm, billsPage, dashboard, provider, tz>>

\* The answer of addBill reaches onSubmit, which goes on: onClose after a
\* success (the page's setIsAddingBill(false) closes the sheet that is open),
\* the catch after a rejection, which leaves the sheet as it is.  finally
\* clears isSubmitting of the form that called, when it is still mounted.
CtxAddBillAnswers ==
    /\ \E i \in 1..Len(requests) :
          LET r == requests[i]
          IN /\ r.form = "ctx" /\ r.answer # "none"
             /\ IF r.answer = "ok"
                THEN /\ ctxForm' = IF TreeMounted THEN CtxClosed ELSE ctxForm
                     /\ requests' = Unmounted(Without(requests, i), "ctx", 1)
                ELSE /\ ctxForm' = IF r.live
                                   THEN [ctxForm EXCEPT !.isSubmitting = FALSE]
                                   ELSE ctxForm
                     /\ requests' = Without(requests, i)
    /\ UNCHANGED <<bills, transactions, categories, accounts, uuid, sbForm, payForm,
                 billsPage, dashboard, provider, tz>>

\* The Cancelar button (onClick={onClose}), or the sheet dismissed.
CtxCancel ==
    /\ ctxForm.open
    /\ ctxForm' = CtxClosed
    /\ requests' = Unmounted(requests, "ctx", 1)
    /\ UNCHANGED <<bills, transactions, categories, accounts, uuid, sbForm, payForm,
                 billsPage, dashboard, provider, tz>>

-----------------------------------------------------------------------------
(* Settlement: payBill and the Recurrence Expander *)

Clients == {1, 2}

\* A payBill that does not look at the bill's status.
payBillOutcomeAnyStatus(billId, accountId) ==
    IF billId \notin Ids(bills) THEN "BillNotFound"
    ELSE IF accountId \notin Ids(accounts) THEN "AccountNotFound"
    ELSE "ok"

\* A payBill that does not look at the account.
payBillOutcomeAnyAccount(billId, accountId) ==
    IF billId \notin Ids(bills) THEN "BillNotFound"
    ELSE IF Find(bills, billId).status = "paid" THEN "BillAlreadyPaid"
    ELSE "ok"

\* Why payBill(billId, accountId) fails, or "ok".
payBillOutcome(billId, accountId) ==
    IF billId \notin Ids(bills) THEN "BillNotFound"
    ELSE IF Find(bills, billId).status # "pending" THEN "BillAlreadyPaid"
    ELSE IF accountId \notin Ids(accounts) THEN "AccountNotFound"
    ELSE "ok"

\* A Recurrence Expander that ends the chain one occurrence early.
nextOccurrenceEndsEarly(bill, id) ==
    LET nextDue == advance(bill.dueDate, bill.recurrenceType)
    IN IF ~bill.isRecurring
          \/ (bill.recurrenceEndDate # Null /\ nextDue >= bill.recurrenceEndDate)
       THEN << >>
       ELSE << Bill(id, bill.description, bill.amount, nextDue, bill.categoryId,
                    "pending", FALSE, Null, Null, Null, TRUE,
                    bill.recurrenceType, bill.recurrenceEndDate) >>

\* A Recurrence Expander that links the successor to the paid bill.
nextOccurrenceLinked(bill, id) ==
    LET nextDue == advance(bill.dueDate, bill.recurrenceType)
    IN IF ~bill.isRecurring
          \/ (bill.recurrenceEndDate # Null /\ nextDue > bill.recurrenceEndDate)
       THEN << >>
       ELSE << Bill(id, bill.description, bill.amount, nextDue, bill.categoryId,
                    "pending", FALSE, Null, Null, bill.id, TRUE,
                    bill.recurrenceType, bill.recurrenceEndDate) >>

\* nextOccurrence: the successor of a recurring bill, or none (the empty
\* sequence) when the bill does not recur or the chain has ended.
nextOccurrence(bill, id) ==
    LET nextDue == advance(bill.dueDate, bill.recurrenceType)
    IN IF ~bill.isRecurring
          \/ (bill.recurrenceEndDate # Null /\ nextDue > bill.recurrenceEndDate)
       THEN << >>
       ELSE << Bill(id, bill.description, bill.amount, nextDue, bill.categoryId,
                    "pending", FALSE, Null, Null, Null, TRUE,
                    bill.recurrenceType, bill.recurrenceEndDate) >>

\* A debit that is written to every account.
payBillAccountsAll(bill, accountId) ==
    [i \in 1..Len(accounts) |-> [accounts[i] EXCEPT !.balance = @ - bill.amount]]

\* A debit computed from the balances read when the ledger was loaded.
payBillAccountsStale(bill, accountId) ==
    [i \in 1..Len(accounts) |->
        IF accounts[i].id = accountId /\ i <= Len(defaultAccounts)
        THEN [accounts[i] EXCEPT !.balance = defaultAccounts[i].balance - bill.amount]
        ELSE accounts[i]]

\* The accounts after the debit of step 1.
payBillAccounts(bill, accountId) ==
    [i \in 1..Len(accounts) |->
        IF accounts[i].id = accountId
        THEN [accounts[i] EXCEPT !.balance = @ - bill.amount]
        ELSE accounts[i]]

\* The transaction of step 2, dated at settlement time.
payBillTransaction(bill, accountId, id) ==
    Transaction(id, "expense", bill.amount, Today, bill.categoryId, accountId,
                bill.description)

\* The bills after steps 3 and 4.
payBillBills(bill, id) ==
    [i \in 1..Len(bills) |->
        IF bills[i].id = bill.id THEN [bills[i] EXCEPT !.status = "paid"]
        ELSE bills[i]] \o nextOccurrence(bill, id)

-----------------------------------------------------------------------------
(* BillPaymentForm *)

\* The bills a page offers with a "Pagar" button: the pending bills of the
\* list it displays.  The page that loads its own list is the page of client
\* 1; the other page lists the provider's bills.
PayList(c) ==
    IF c = 1 /\ billsPage.mounted
    THEN billsPage.displayBills
    ELSE SelectSeq(bills, LAMBDA b : b.status = "pending")

\* handlePayBill(bill.id): setSelectedBill and setIsPayingBill(true).
PayOpen(c) ==
    /\ ~payForm[c].open
    /\ c = 1 => TreeMounted /\ ~sbForm.open /\ ~ctxForm.open
    /\ \E i \in 1..Len(PayList(c)) :
          payForm' = [payForm EXCEPT ![c] =
              [open |-> TRUE, billId |-> PayList(c)[i].id, accountId |-> EmptyId,
               isSubmitting |-> FALSE, disabled |-> FALSE]]
    /\ UNCHANGED <<bills, transactions, categories, accounts, uuid, sbForm, ctxForm,
                 billsPage, dashboard, provider, requests, tz>>

\* bills.find(b => b.id === billId): without the bill the component renders
\* 'Conta nao encontrada' and no form.
PayFormShown(c) == payForm[c].open /\ payForm[c].billId \in Ids(bills)

PayPickAccount(c, in) ==
    /\ PayFormShown(c)
    /\ \E a \in Ids(accounts) \cap in.accountIds :
           payForm' = [payForm EXCEPT ![c].accountId = a]
    /\ UNCHANGED <<bills, transactions, categories, accounts, uuid, sbForm, ctxForm,
                 billsPage, dashboard, provider, requests, tz>>

\* onSubmit up to the awaited payBill: the schema accepts any string, ''
\* included; the button carries the isSubmitting of the last render.
PaySubmit(c, in) ==
    /\ PayFormShown(c) /\ ~payForm[c].disabled
    /\ Len(requests) < in.maxRequests
    /\ payForm' = [payForm EXCEPT ![c].isSubmitting = TRUE]
    /\ requests' = Append(requests,
           Request("pay", c, payForm[c].billId, payForm[c].accountId))
    /\ UNCHANGED <<bills, transactions, categories, accounts, uuid, sbForm, ctxForm,
                 billsPage, dashboard, provider, tz>>

\* The re-render after setIsSubmitting: disabled={isSubmitting}.
PayRender(c) ==
    /\ payForm[c].open /\ payForm[c].disabled # payForm[c].isSubmitting
    /\ payForm' = [payForm EXCEPT ![c].disabled = payForm[c].isSubmitting]
    /\ UNCHANGED <<bills, transactions, categories, accounts, uuid, sbForm, ctxForm,
                 billsPage, dashboard, provider, requests, tz>>

\* payBill executes one call as one atomic unit: a call that fails changes
\* nothing, a call that succeeds makes the four writes.  The answer is on its
\* way to the form that awaits it, which is as the submit left it.
PayBillRuns(c, in) ==
    /\ \E i \in 1..Len(requests) :
          LET r == requests[i]
              outcome == payBillOutcome(r.bill, r.data)
          IN /\ r.form = "pay" /\ r.client = c /\ r.answer = "none"
             /\ requests' = [requests EXCEPT ![i].answer = outcome]
             /\ IF outcome # "ok"
                THEN UNCHANGED <<bills, transactions, accounts, uuid>>
                ELSE LET bill == Find(bills, r.bill)
                         next == nextOccurrence(bill, FreshId("bills"))
                     IN /\ uuid.transactions < in.maxTransactions
                        /\ uuid.bills + Len(next) <= in.maxBills
                        /\ accounts' = payBillAccounts(bill, r.data)
                        /\ transactions' = Append(transactions,
                               payBillTransaction(bill, r.data,
                                                  FreshId("transactions")))
                        /\ bills' = payBillBills(bill, FreshId("bills"))
                        /\ uuid' = [uuid EXCEPT !.transactions = @ + 1,
                                                !.bills = @ + Len(next)]
    /\ UNCHANGED <<categories, sbForm, ctxForm, payForm, billsPage, dashboard,
                 provider, tz>>

\* The answer of payBill reaches onSubmit, which goes on: onClose after a
\* success (the page closes the sheet that is open and sends its refresh),
\* the catch after a failure, which leaves the sheet as it is.  finally clears
\* isSubmitting of the form that called, when it is still mounted.
PayBillAnswers(c, in) ==
    /\ \E i \in 1..Len(requests) :
          LET r == requests[i]
          IN /\ r.form = "pay" /\ r.client = c /\ r.answer # "none"
             /\ IF r.answer = "ok"
                THEN /\ LoadsLeft(in)
                     /\ payForm' = [payForm EXCEPT ![c] = PayClosed]
                     /\ requests' = Unmounted(Without(requests, i), "pay", c)
                     /\ billsPage' = handlePayBillClose(billsPage, c)
                ELSE /\ payForm' = IF r.live
                                   THEN [payForm EXCEPT ![c].isSubmitting = FALSE]
                                   ELSE payForm
                     /\ requests' = Without(requests, i)
                     /\ UNCHANGED billsPage
    /\ UNCHANGED <<bills, transactions, categories, accounts, uuid, sbForm, ctxForm,
                 dashboard, provider, tz>>

\* The Cancelar button: onClick={onClose}.
PayCancel(c, in) ==
    /\ PayFormShown(c)
    /\ LoadsLeft(in)
    /\ payForm' = [payForm EXCEPT ![c] = PayClosed]
    /\ requests' = Unmounted(requests, "pay", c)
    /\ billsPage' = handlePayBillClose(billsPage, c)
    /\ UNCHANGED <<bills, transactions, categories, accounts, uuid, sbForm, ctxForm,
                 dashboard, provider, tz>>

\* The sheet is dismissed: onOpenChange={setIsPayingBill}.
PayDismiss(c) ==
    /\ payForm[c].open
    /\ payForm' = [payForm EXCEPT ![c] = PayClosed]
    /\ requests' = Unmounted(requests, "pay", c)
    /\ UNCHANGED <<bills, transactions, categories, accounts, uuid, sbForm, ctxForm,
                 billsPage, dashboard, provider, tz>>

\* deleteBill: only a pending bill may be deleted.
DeleteBill ==
    /\ \E i \in 1..Len(bills) :
          /\ bills[i].status = "pending"
          /\ bills' = SelectSeq(bills, LAMBDA b : b.id # bills[i].id)
    /\ UNCHANGED <<transactions, categories, accounts, uuid, sbForm, ctxForm, payForm,
                 billsPage, dashboard, provider, requests, tz>>

-----------------------------------------------------------------------------
(* The finance provider's operations *)

\* setTransactions, setCategories, setAccounts: the state becomes an array
\* that is not the one before, also when its content is the same.  A mounted
\* dashboard meets the new array at its next render.
Replaced(d, coll) ==
    IF d.mounted THEN [d EXCEPT !.replaced = @ \cup {coll}] ELSE d

\* addTransaction appends what it is given under a new id; it does not look
\* at the categories or at the accounts.
addTransaction(in) ==
    /\ TreeMounted
    /\ uuid.transactions < in.maxTransactions
    /\ \E type \in TransactionTypes,
          categoryId \in in.categoryIds, accountId \in in.accountIds :
          transactions' = Append(transactions,
              Transaction(FreshId("transactions"), type, 100, Today,
                          categoryId, accountId, "Aluguel"))
    /\ uuid' = Drawn("transactions", 1)
    /\ dashboard' = Replaced(dashboard, "transactions")
    /\ UNCHANGED <<bills, categories, accounts, sbForm, ctxForm, payForm,
                 billsPage, provider, requests, tz>>

\* editTransaction replaces the transaction of the id, if there is one, by what
\* it is given; it does not look at the categories or at the accounts.
editTransaction(in) ==
    /\ TreeMounted
    /\ \E id \in in.transactionIds,
          categoryId \in in.categoryIds, accountId \in in.accountIds :
          transactions' = [i \in 1..Len(transactions) |->
              IF transactions[i].id = id
              THEN Transaction(id, "expense", 50, Today, categoryId, accountId,
                               "Aluguel")
              ELSE transactions[i]]
    /\ dashboard' = Replaced(dashboard, "transactions")
    /\ UNCHANGED <<bills, categories, accounts, uuid, sbForm, ctxForm, payForm,
                 billsPage, provider, requests, tz>>

\* deleteTransaction filters the transactions by the id, which none of them
\* need have.
deleteTransaction(in) ==
    /\ TreeMounted
    /\ \E id \in in.transactionIds :
          transactions' = SelectSeq(transactions, LAMBDA t : t.id # id)
    /\ dashboard' = Replaced(dashboard, "transactions")
    /\ UNCHANGED <<bills, categories, accounts, uuid, sbForm, ctxForm, payForm,
                 billsPage, provider, requests, tz>>

\* The categories after deleteCategory(id): the category is kept when a
\* transaction uses it.
deleteCategoryResult(id) ==
    IF SelectSeq(transactions, LAMBDA t : t.categoryId = id) # << >>
    THEN categories
    ELSE SelectSeq(categories, LAMBDA c : c.id # id)

deleteCategory(in) ==
    /\ TreeMounted
    /\ \E id \in in.categoryIds :
          /\ categories' = deleteCategoryResult(id)
          /\ dashboard' =
                 IF SelectSeq(transactions, LAMBDA t : t.categoryId = id) # << >>
                 THEN dashboard ELSE Replaced(dashboard, "categories")
    /\ UNCHANGED <<bills, transactions, accounts, uuid, sbForm, ctxForm, payForm,
                 billsPage, provider, requests, tz>>

addCategory(in) ==
    /\ TreeMounted
    /\ uuid.categories < in.maxCategories
    /\ \E name \in in.names, type \in TransactionTypes :
           categories' = Append(categories,
                                Category(FreshId("categories"), name, type))
    /\ uuid' = Drawn("categories", 1)
    /\ dashboard' = Replaced(dashboard, "categories")
    /\ UNCHANGED <<bills, transactions, accounts, sbForm, ctxForm, payForm,
                 billsPage, provider, requests, tz>>

\* editCategory(id, category): the category of that id is replaced, whatever
\* uses it.
editCategory(in) ==
    /\ TreeMounted
    /\ \E id \in in.categoryIds, name \in in.names, type \in TransactionTypes :
           categories' = [i \in 1..Len(categories) |->
                             IF categories[i].id = id
                             THEN Category(id, name, type) ELSE categories[i]]
    /\ dashboard' = Replaced(dashboard, "categories")
    /\ UNCHANGED <<bills, transactions, accounts, uuid, sbForm, ctxForm, payForm,
                 billsPage, provider, requests, tz>>

addAccount ==
    /\ TreeMounted
    /\ uuid.accounts < MaxAccounts
    /\ accounts' = Append(accounts, Account(FreshId("accounts"), "Poupanca", 0, "bank"))
    /\ uuid' = Drawn("accounts", 1)
    /\ dashboard' = Replaced(dashboard, "accounts")
    /\ UNCHANGED <<bills, transactions, categories, sbForm, ctxForm, payForm,
                 billsPage, provider, requests, tz>>

\* editAccount(id, account): the account of that id is replaced, balance
\* included.
editAccount(in) ==
    /\ TreeMounted
    /\ \E id \in in.accountIds, name \in in.accountNames,
          balance \in in.balances, type \in AccountTypes :
           accounts' = [i \in 1..Len(accounts) |->
                           IF accounts[i].id = id
                           THEN Account(id, name, balance, type) ELSE accounts[i]]
    /\ dashboard' = Replaced(dashboard, "accounts")
    /\ UNCHANGED <<bills, transactions, categories, uuid, sbForm, ctxForm, payForm,
                 billsPage, provider, requests, tz>>

\* The accounts after deleteAccount(id): the account is kept when a
\* transaction uses it.
deleteAccountResult(id) ==
    IF SelectSeq(transactions, LAMBDA t : t.accountId = id) # << >>
    THEN accounts
    ELSE SelectSeq(accounts, LAMBDA a : a.id # id)

deleteAccount(in) ==
    /\ TreeMounted
    /\ \E id \in in.accountIds :
          /\ accounts' = deleteAccountResult(id)
          /\ dashboard' =
                 IF SelectSeq(transactions, LAMBDA t : t.accountId = id) # << >>
                 THEN dashboard ELSE Replaced(dashboard, "accounts")
    /\ UNCHANGED <<bills, transactions, categories, uuid, sbForm, ctxForm, payForm,
                 billsPage, provider, requests, tz>>

-----------------------------------------------------------------------------
(* The finance provider's operations, called on the closure of a render *)

\* The operations above are a call and the render that follows it.  Between
\* two renders every call reads the transactions, categories and accounts its
\* render closed over, and setTransactions, setCategories and setAccounts
\* replace the state with the array they are given.  The provider record
\* holds that closure, and the ids the calls added and removed so far.
ProviderClosure(p) ==
    [p EXCEPT !.transactions = transactions, !.categories = categories,
              !.accounts = accounts]

Called(p, field, coll, id) == [p EXCEPT ![field] = @ \cup {<<coll, id>>}]

\* The provider renders again: the state is what the last set calls left.
ProviderRender ==
    /\ provider.mounted
    /\ provider' = ProviderClosure(provider)
    /\ provider' # provider
    /\ UNCHANGED <<bills, transactions, categories, accounts, uuid, sbForm, ctxForm,
                 payForm, billsPage, dashboard, requests, tz>>

CallAddTransaction(in) ==
    /\ provider.mounted
    /\ uuid.transactions < in.maxCalls
    /\ \E categoryId \in in.categoryIds, accountId \in in.accountIds :
          transactions' = Append(provider.transactions,
              Transaction(FreshId("transactions"), "expense", 100, Today,
                          categoryId, accountId, "Aluguel"))
    /\ uuid' = Drawn("transactions", 1)
    /\ provider' = Called(provider, "added", "transactions", FreshId("transactions"))
    /\ dashboard' = Replaced(dashboard, "transactions")
    /\ UNCHANGED <<bills, categories, accounts, sbForm, ctxForm, payForm,
                 billsPage, requests, tz>>

CallEditTransaction(in) ==
    /\ provider.mounted
    /\ \E id \in Ids(provider.transactions) \cap in.transactionIds,
          categoryId \in in.categoryIds, accountId \in in.accountIds :
          transactions' = [i \in 1..Len(provider.transactions) |->
              IF provider.transactions[i].id = id
              THEN Transaction(id, "expense", 50, Today, categoryId, accountId,
                               "Aluguel")
              ELSE provider.transactions[i]]
    /\ dashboard' = Replaced(dashboard, "transactions")
    /\ UNCHANGED <<bills, categories, accounts, uuid, sbForm, ctxForm, payForm,
                 billsPage, provider, requests, tz>>

CallDeleteTransaction(in) ==
    /\ provider.mounted
    /\ \E id \in Ids(provider.transactions) \cap in.transactionIds :
          /\ transactions' = SelectSeq(provider.transactions, LAMBDA t : t.id # id)
          /\ provider' = Called(provider, "deleted", "transactions", id)
    /\ dashboard' = Replaced(dashboard, "transactions")
    /\ UNCHANGED <<bills, categories, accounts, uuid, sbForm, ctxForm, payForm,
                 billsPage, requests, tz>>

CallAddCategory(in) ==
    /\ provider.mounted
    /\ uuid.categories < in.maxCalls
    /\ \E name \in in.names :
          categories' = Append(provider.categories,
                               Category(FreshId("categories"), name, "expense"))
    /\ uuid' = Drawn("categories", 1)
    /\ provider' = Called(provider, "added", "categories", FreshId("categories"))
    /\ dashboard' = Replaced(dashboard, "categories")
    /\ UNCHANGED <<bills, transactions, accounts, sbForm, ctxForm, payForm,
                 billsPage, requests, tz>>

CallDeleteCategory(in) ==
    /\ provider.mounted
    /\ \E id \in Ids(provider.categories) \cap in.categoryIds :
          IF SelectSeq(provider.transactions, LAMBDA t : t.categoryId = id) # << >>
          THEN UNCHANGED <<categories, provider, dashboard>>
          ELSE /\ categories' = SelectSeq(provider.categories, LAMBDA c : c.id # id)
               /\ provider' = Called(provider, "deleted", "categories", id)
               /\ dashboard' = Replaced(dashboard, "categories")
    /\ UNCHANGED <<bills, transactions, accounts, uuid, sbForm, ctxForm, payForm,
                 billsPage, requests, tz>>

CallAddAccount(in) ==
    /\ provider.mounted
    /\ uuid.accounts < in.maxCalls
    /\ accounts' = Append(provider.accounts,
                          Account(FreshId("accounts"), "Poupanca", 0, "bank"))
    /\ uuid' = Drawn("accounts", 1)
    /\ provider' = Called(provider, "added", "accounts", FreshId("accounts"))
    /\ dashboard' = Replaced(dashboard, "accounts")
    /\ UNCHANGED <<bills, transactions, categories, sbForm, ctxForm, payForm,
                 billsPage, requests, tz>>

CallEditAccount(in) ==
    /\ provider.mounted
    /\ \E id \in in.accountIds, name \in in.accountNames,
          balance \in in.balances, type \in AccountTypes :
           accounts' = [i \in 1..Len(provider.accounts) |->
                           IF provider.accounts[i].id = id
                           THEN Account(id, name, balance, type)
                           ELSE provider.accounts[i]]
    /\ dashboard' = Replaced(dashboard, "accounts")
    /\ UNCHANGED <<bills, transactions, categories, uuid, sbForm, ctxForm, payForm,
                 billsPage, provider, requests, tz>>

CallDeleteAccount(in) ==
    /\ provider.mounted
    /\ \E id \in Ids(provider.accounts) \cap in.accountIds :
          IF SelectSeq(provider.transactions, LAMBDA t : t.accountId = id) # << >>
          THEN UNCHANGED <<accounts, provider, dashboard>>
          ELSE /\ accounts' = SelectSeq(provider.accounts, LAMBDA a : a.id # id)
               /\ provider' = Called(provider, "deleted", "accounts", id)
               /\ dashboard' = Replaced(dashboard, "accounts")
    /\ UNCHANGED <<bills, transactions, categories, uuid, sbForm, ctxForm, payForm,
                 billsPage, requests, tz>>

-----------------------------------------------------------------------------
(* The bills page of src/pages/Bills.tsx *)

\* date-fns isToday and isBefore.
isToday(w, now) == DateOf(w) = DateOf(now)
isBefore(a, b) == a < b

Tabs == {"all", "overdue", "today", "upcoming"}

\* The filter callback of displayBills.
displayBillsKeeps(bill, activeTab, now, zone) ==
    LET dueDate == NewDateOfString(bill.dueDate, zone)
    IN /\ bill.status = "pending"
       /\ CASE activeTab = "overdue" -> isBefore(dueDate, now) /\ ~isToday(dueDate, now)
            [] activeTab = "today" -> isToday(dueDate, now)
            [] activeTab = "upcoming" -> isBefore(now, dueDate)
            [] OTHER -> TRUE

displayBills(localBills, activeTab, now, zone) ==
    SelectSeq(localBills, LAMBDA bill : displayBillsKeeps(bill, activeTab, now, zone))

\* format(new Date(bill.due_date), 'yyyy-MM-dd'): the local day of the moment.
dateKey(bill, zone) == DateOf(NewDateOfString(bill.dueDate, zone))

\* groupedBills: under each key, the bills of that key in the order of the
\* list.
groupedBills(shown, zone) ==
    [k \in {dateKey(shown[i], zone) : i \in 1..Len(shown)} |->
        SelectSeq(shown, LAMBDA bill : dateKey(bill, zone) = k)]

\* Object.keys(groupedBills).sort(): keys of one format, so the order of the
\* texts is the order of the days.
RECURSIVE SortedKeys(_)
SortedKeys(S) ==
    IF S = {} THEN << >>
    ELSE LET least == CHOOSE k \in S : \A l \in S : k <= l
         IN <<least>> \o SortedKeys(S \ {least})

\* A render of the page at the moment now.
BillsRendered(page, activeTab, now) ==
    LET shown == displayBills(page.localBills, activeTab, now, page.tz)
    IN [page EXCEPT !.activeTab = activeTab, !.now = now,
                    !.displayBills = shown,
                    !.groupedBills = groupedBills(shown, page.tz),
                    !.sortedDates = SortedKeys(DOMAIN groupedBills(shown, page.tz))]

\* Tabs onValueChange={setActiveTab}, and the render that follows.
SetActiveTab ==
    /\ billsPage.mounted
    /\ \E tab \in Tabs : billsPage' = BillsRendered(billsPage, tab, billsPage.now)
    /\ UNCHANGED <<bills, transactions, categories, accounts, uuid, sbForm, ctxForm,
                 payForm, dashboard, provider, requests, tz>>

\* A later render: new Date() has moved on.
BillsRender(in) ==
    /\ billsPage.mounted
    /\ \E now \in in.nows :
           /\ now > billsPage.now
           /\ billsPage' = BillsRendered(billsPage, billsPage.activeTab, now)
    /\ UNCHANGED <<bills, transactions, categories, accounts, uuid, sbForm, ctxForm,
                 payForm, dashboard, provider, requests, tz>>

\* .order('due_date', { ascending: true }): the rows by due date and by
\* nothing else, so rows of one date come in any order.  The places a row can
\* take in an ordered answer, the answers over the first n rows, and the
\* answers the store can give.
InsertByDueDate(sorted, b) ==
    LET before == Cardinality({i \in 1..Len(sorted) : sorted[i].dueDate < b.dueDate})
        upTo == Cardinality({i \in 1..Len(sorted) : sorted[i].dueDate <= b.dueDate})
    IN {SubSeq(sorted, 1, k) \o <<b>> \o SubSeq(sorted, k + 1, Len(sorted)) :
            k \in before..upTo}

RECURSIVE OrderedPrefix(_, _)
OrderedPrefix(rows, n) ==
    IF n = 0 THEN {<< >>}
    ELSE UNION {InsertByDueDate(sorted, rows[n]) :
                    sorted \in OrderedPrefix(rows, n - 1)}

OrderByDueDate(rows) == OrderedPrefix(rows, Len(rows))

\* The page mounts: the effect calls loadBills and subscribes to the changes
\* of the bills table.
BillsMount(in) ==
    /\ TreeMounted
    /\ ~billsPage.mounted
    /\ billsPage' =
           QuerySent(BillsRendered([mounted |-> TRUE, activeTab |-> "all",
                                    now |-> in.now, tz |-> tz,
                                    localBills |-> << >>, displayBills |-> << >>,
                                    groupedBills |-> << >>, sortedDates |-> << >>,
                                    issued |-> 0, inflight |-> {},
                                    notified |-> bills, failed |-> FALSE],
                                   "all", in.now))
    /\ UNCHANGED <<bills, transactions, categories, accounts, uuid, sbForm, ctxForm,
                 payForm, dashboard, provider, requests, tz>>

\* The callback of the subscription: a change of the table was notified, and
\* loadBills is called.
ChangeNotified(in) ==
    /\ billsPage.mounted
    /\ billsPage.notified # bills
    /\ billsPage.issued < in.maxLoads
    /\ billsPage' = QuerySent([billsPage EXCEPT !.notified = bills])
    /\ UNCHANGED <<bills, transactions, categories, accounts, uuid, sbForm, ctxForm,
                 payForm, dashboard, provider, requests, tz>>

\* The store answers a query in flight with the rows it holds now.
QueryRuns ==
    /\ billsPage.mounted
    /\ \E r \in billsPage.inflight, data \in OrderByDueDate(bills) :
          /\ ~r.ran
          /\ billsPage' =
                 [billsPage EXCEPT
                     !.inflight = (@ \ {r}) \cup
                         {[r EXCEPT !.ran = TRUE, !.data = data]}]
    /\ UNCHANGED <<bills, transactions, categories, accounts, uuid, sbForm, ctxForm,
                 payForm, dashboard, provider, requests, tz>>

\* The response of a query arrives, whichever was sent first: an error
\* leaves the list as it is, data replace it.
ResponseArrives ==
    /\ billsPage.mounted
    /\ \E r \in billsPage.inflight, error \in BOOLEAN :
          /\ r.ran
          /\ billsPage' =
                 IF error
                 THEN [billsPage EXCEPT !.inflight = @ \ {r}, !.failed = TRUE]
                 ELSE BillsRendered([billsPage EXCEPT !.inflight = @ \ {r},
                                                      !.localBills = r.data],
                                    billsPage.activeTab, billsPage.now)
    /\ UNCHANGED <<bills, transactions, categories, accounts, uuid, sbForm, ctxForm,
                 payForm, dashboard, provider, requests, tz>>

-----------------------------------------------------------------------------
(* The dashboard of src/pages/Dashboard.tsx *)

\* The date of a transaction is a Date made as new Date('yyyy-MM-dd'),
\* midnight UTC of its day; new Date(t.date) is that moment, read here on the
\* local clock, the clock of new Date() and of format.
DateMoment(d, zone) == NewDateOfString(d, zone)

\* transactions.sort((a, b) => new Date(b.date) - new Date(a.date)): the
\* stable sort of the array itself, latest date first.
InsertByDateDesc(sorted, t) ==
    LET k == Cardinality({i \in 1..Len(sorted) : sorted[i].date >= t.date})
    IN SubSeq(sorted, 1, k) \o <<t>> \o SubSeq(sorted, k + 1, Len(sorted))

RECURSIVE SortedPrefix(_, _)
SortedPrefix(s, n) ==
    IF n = 0 THEN << >> ELSE InsertByDateDesc(SortedPrefix(s, n - 1), s[n])

SortByDateDesc(s) == SortedPrefix(s, Len(s))

\* filter(t => t.type === type).reduce((acc, t) => acc + t.amount, 0)
RECURSIVE TotalOfType(_, _, _)
TotalOfType(txs, type, n) ==
    IF n = 0 THEN 0
    ELSE TotalOfType(txs, type, n - 1)
         + (IF txs[n].type = type THEN txs[n].amount ELSE 0)

\* accounts.reduce((acc, account) => acc + account.balance, 0)
RECURSIVE TotalBalance(_, _)
TotalBalance(accs, n) ==
    IF n = 0 THEN 0 ELSE TotalBalance(accs, n - 1) + accs[n].balance

\* acc[category.name] = (acc[category.name] || 0) + transaction.amount, on an
\* object whose entries keep the order of their first assignment.
AddToName(acc, name, amount) ==
    IF \E i \in 1..Len(acc) : acc[i].name = name
    THEN [i \in 1..Len(acc) |->
             IF acc[i].name = name
             THEN [acc[i] EXCEPT !.value = @ + amount] ELSE acc[i]]
    ELSE Append(acc, [name |-> name, value |-> amount])

\* expensesByCategory and categoryPieData, over the first n transactions.
RECURSIVE expensesByCategory(_, _, _)
expensesByCategory(txs, cats, n) ==
    IF n = 0 THEN << >>
    ELSE LET acc == expensesByCategory(txs, cats, n - 1)
             transaction == txs[n]
         IN IF transaction.type = "expense" /\ transaction.categoryId \in Ids(cats)
            THEN AddToName(acc, Find(cats, transaction.categoryId).name,
                           transaction.amount)
            ELSE acc

\* sixMonthsAgo: new Date(), setMonth(getMonth() - 5), setDate(1).  setMonth
\* keeps the day of the month and the time of day; a day the target month does
\* not have rolls over into the month after it.
sixMonthsAgo(now) ==
    LET d == DateOf(now)
        m0 == Month(d) - 5
        y == IF m0 >= 1 THEN Year(d) ELSE Year(d) - 1
        m == IF m0 >= 1 THEN m0 ELSE m0 + 12
        rolls == Day(d) > DaysInMonth(y, m)
        m2 == IF rolls THEN m + 1 ELSE m
    IN MkDate(y, m2, 1) * 100 + (now % 100)

\* acc[month], keyed by format(date, 'MMM'): the month of the year of the
\* local day.
AddToMonth(acc, transaction, zone) ==
    LET month == Month(DateOf(DateMoment(transaction.date, zone)))
        acc1 == IF \E i \in 1..Len(acc) : acc[i].month = month THEN acc
                ELSE Append(acc, [month |-> month, income |-> 0, expense |-> 0])
    IN [i \in 1..Len(acc1) |->
           IF acc1[i].month # month THEN acc1[i]
           ELSE IF transaction.type = "income"
                THEN [acc1[i] EXCEPT !.income = @ + transaction.amount]
                ELSE [acc1[i] EXCEPT !.expense = @ + transaction.amount]]

\* monthlyTransactions and monthlyGrouped, over the first n transactions.
RECURSIVE monthlyGrouped(_, _, _, _)
monthlyGrouped(txs, now, zone, n) ==
    IF n = 0 THEN << >>
    ELSE LET acc == monthlyGrouped(txs, now, zone, n - 1)
         IN IF DateMoment(txs[n].date, zone) >= sixMonthsAgo(now)
            THEN AddToMonth(acc, txs[n], zone) ELSE acc

\* What a render of the dashboard closes over.
Snapshot(txs) ==
    [transactions |-> txs, categories |-> categories, accounts |-> accounts]

\* The render of Dashboard: the table of the latest transactions sorts the
\* transactions array of the provider, in place.  The effect is due after a
\* render that met an array which is not the one of the render before
\* (the dependencies are compared with Object.is).
DashboardRender ==
    /\ TreeMounted
    /\ transactions' = SortByDateDesc(transactions)
    /\ dashboard' =
           IF dashboard.mounted
           THEN [dashboard EXCEPT !.rendered = Snapshot(transactions'),
                                  !.latest = SubSeq(transactions', 1,
                                                    Min(5, Len(transactions'))),
                                  !.due = @ \/ dashboard.replaced # {},
                                  !.replaced = {}]
           ELSE [mounted |-> TRUE, rendered |-> Snapshot(transactions'),
                 latest |-> SubSeq(transactions', 1, Min(5, Len(transactions'))),
                 replaced |-> {}, due |-> FALSE,
                 effectRan |-> FALSE, deps |-> Snapshot(<< >>), now |-> 0,
                 totalIncome |-> 0, totalExpense |-> 0, totalBalance |-> 0,
                 categoryData |-> << >>, monthlyData |-> << >>]
    /\ UNCHANGED <<bills, categories, accounts, uuid, sbForm, ctxForm, payForm,
                 billsPage, provider, requests, tz>>

\* The effect of Dashboard, run after the first render and after a render
\* whose transactions, categories or accounts is another array; new Date() is
\* read in every run.
DashboardEffect(in) ==
    /\ dashboard.mounted
    /\ ~dashboard.effectRan \/ dashboard.due
    /\ \E now \in in.nows :
          LET r == dashboard.rendered
          IN dashboard' =
                [dashboard EXCEPT
                    !.effectRan = TRUE, !.due = FALSE, !.deps = r, !.now = now,
                    !.totalIncome =
                        TotalOfType(r.transactions, "income", Len(r.transactions)),
                    !.totalExpense =
                        TotalOfType(r.transactions, "expense", Len(r.transactions)),
                    !.totalBalance = TotalBalance(r.accounts, Len(r.accounts)),
                    !.categoryData =
                        expensesByCategory(r.transactions, r.categories,
                                           Len(r.transactions)),
                    !.monthlyData =
                        monthlyGrouped(r.transactions, now, tz,
                                       Len(r.transactions))]
    /\ UNCHANGED <<bills, transactions, categories, accounts, uuid, sbForm, ctxForm,
                 payForm, billsPage, provider, requests, tz>>

-----------------------------------------------------------------------------
(* Specifications *)

\* The bills page and the dashboard before they are mounted.
NoIds == [bills |-> 0, transactions |-> 0, categories |-> 0, accounts |-> 0]

InitIn(zones) ==
    /\ bills = << >>
    /\ transactions = defaultTransactions
    /\ categories = defaultCategories
    /\ accounts = defaultAccounts
    /\ uuid = NoIds
    /\ sbForm = SbClosed
    /\ ctxForm = CtxClosed
    /\ payForm = [c \in Clients |-> PayClosed]
    /\ billsPage = NoBillsPage
    /\ dashboard = NoDashboard
    /\ provider = NoProvider
    /\ requests = << >>
    /\ tz \in zones

\* A browser in UTC.
Init == InitIn({0})

\* A request a consumer of the provider passes to addBill.
BillRequest(amount, dueDate, isInstallment, totalInstallments, isRecurring, recurrenceType) ==
    [description |-> "Aluguel", amount |-> amount, dueDate |-> dueDate,
     categoryId |-> 6, status |-> "pending", isInstallment |-> isInstallment,
     totalInstallments |-> totalInstallments,
     currentInstallment |-> IF isInstallment THEN 1 ELSE Null,
     parentBillId |-> Null, isRecurring |-> isRecurring,
     recurrenceType |-> recurrenceType, recurrenceEndDate |-> Null]

\* One user at the bills page: the two bill forms and the payment form.
\* What the user types and picks: descriptions and amount texts, days in the
\* calendars, recurrence types, categories and accounts in the selects; and how
\* many bills and transactions fit the tables.
PageInputs ==
    [descriptions |-> {"Aluguel"}, amountTexts |-> {"100", "0"},
     dueDates |-> {Today}, endDates |-> {20240210}, types |-> {"monthly"},
     categoryIds |-> {6}, accountIds |-> {1},
     maxBills |-> MaxBills, maxTransactions |-> MaxPayments,
     maxRequests |-> MaxPending]

Next ==
    \/ SbOpen \/ SbToggleInstallment \/ SbToggleRecurring \/ SbTogglePaid
    \/ SbTypeInstallments \/ SbPickRecurrence(PageInputs) \/ SbPickDueDate(PageInputs)
    \/ SbSubmit(PageInputs) \/ SbRender \/ SbStoreRuns(PageInputs)
    \/ SbStoreAnswers(PageInputs) \/ SbCancel
    \/ CtxOpen \/ CtxToggleInstallment \/ CtxToggleRecurring
    \/ CtxTypeInstallments \/ CtxPickRecurrence(PageInputs)
    \/ CtxPickDueDate(PageInputs)
    \/ CtxPickCategory(PageInputs) \/ CtxSubmit(PageInputs) \/ CtxRender
    \/ AddBillRuns(PageInputs) \/ CtxAddBillAnswers \/ CtxCancel
    \/ PayOpen(1) \/ PayPickAccount(1, PageInputs) \/ PaySubmit(1, PageInputs)
    \/ PayRender(1) \/ PayBillRuns(1, PageInputs)
    \/ PayBillAnswers(1, PageInputs) \/ PayCancel(1, PageInputs)
    \/ PayDismiss(1)

Spec == Init /\ [][Next]_vars

\* The same user, busy with the two switches of the bill forms: bills are
\* created and updated with the switches in every position, each sheet kept
\* open until its submit succeeds; and a consumer that calls addBill with
\* both flags set.
FlagInputs ==
    [descriptions |-> {"Aluguel"}, amountTexts |-> {"100"},
     endDates |-> {}, types |-> {"monthly"}, categoryIds |-> {6},
     billRequests |-> {BillRequest(100, Today, TRUE, 2, TRUE, "monthly")},
     maxBills |-> MaxBills, maxRequests |-> MaxPending]

NextFlags ==
    \/ SbOpen \/ SbToggleInstallment \/ SbToggleRecurring
    \/ SbSubmit(FlagInputs) \/ SbRender \/ SbStoreRuns(FlagInputs)
    \/ SbStoreAnswers(FlagInputs)
    \/ CtxOpen \/ CtxToggleInstallment \/ CtxToggleRecurring
    \/ CtxTypeInstallments \/ CtxPickRecurrence(FlagInputs)
    \/ CtxPickCategory(FlagInputs) \/ CtxSubmit(FlagInputs)
    \/ CtxRender \/ AddBillRuns(FlagInputs)
    \/ CtxAddBillAnswers
    \/ AddBillCalled(FlagInputs) \/ AddBillReturns

SpecFlags == Init /\ [][NextFlags]_vars

\* Two clients paying one bill and its successor, and bills being deleted.
Seed(description, amount, dueDate, isRecurring, recurrenceType, recurrenceEndDate) ==
    Bill(UuidBase + 1, description, amount, dueDate, 6, "pending", FALSE, Null,
         Null, Null, isRecurring, recurrenceType, recurrenceEndDate)

SeedBills ==
    { Seed("Aluguel", 100, 20240105, FALSE, NoType, Null),
      Seed("Internet", 600, 20240131, TRUE, "weekly", 20240210),
      Seed("Aluguel", 100, 20240105, TRUE, "monthly", 20240305),
      Seed("Internet", 600, 20240105, TRUE, "yearly", 20240305),
      Seed("Internet", 600, 20240229, TRUE, "yearly", 20260228),
      Seed("Internet", 600, 20240131, TRUE, "monthly", Null) }

PayInputs ==
    [accountIds |-> {1}, maxBills |-> MaxRaced, maxTransactions |-> MaxRaced,
     maxRequests |-> MaxRequests]

RacedBills ==
    { Seed("Aluguel", 100, 20240105, FALSE, NoType, Null),
      Seed("Internet", 600, 20240131, TRUE, "weekly", 20240210) }

InitSeeded(seeds) ==
    /\ \E b \in seeds : bills = << b >>
    /\ transactions = defaultTransactions
    /\ categories = defaultCategories
    /\ accounts = defaultAccounts
    /\ uuid = [NoIds EXCEPT !.bills = 1]
    /\ sbForm = SbClosed
    /\ ctxForm = CtxClosed
    /\ payForm = [c \in Clients |-> PayClosed]
    /\ billsPage = NoBillsPage
    /\ dashboard = NoDashboard
    /\ provider = NoProvider
    /\ requests = << >>
    /\ tz = 0

InitPay == InitSeeded(RacedBills)

NextPay ==
    \/ \E c \in Clients :
          \/ PayOpen(c) \/ PayPickAccount(c, PayInputs) \/ PaySubmit(c, PayInputs)
          \/ PayRender(c) \/ PayBillRuns(c, PayInputs)
          \/ PayBillAnswers(c, PayInputs) \/ PayCancel(c, PayInputs)
          \/ PayDismiss(c)
    \/ DeleteBill

SpecPay == InitPay /\ [][NextPay]_vars

\* One client paying a chain bill after bill, to its end.
ChainInputs ==
    [accountIds |-> {1, 2}, maxBills |-> MaxChain, maxTransactions |-> MaxChain,
     maxRequests |-> MaxPending]

InitChain == InitSeeded(SeedBills)

NextChain ==
    \/ PayOpen(1) \/ PayPickAccount(1, ChainInputs) \/ PaySubmit(1, ChainInputs)
    \/ PayRender(1) \/ PayBillRuns(1, ChainInputs)
    \/ PayBillAnswers(1, ChainInputs) \/ PayCancel(1, ChainInputs)
    \/ PayDismiss(1)
    \/ DeleteBill

SpecChain == InitChain /\ [][NextChain]_vars

\* The provider's operations on a ledger that holds at most one bill.
GuardInputs ==
    [categoryIds |-> {6, 7}, accountIds |-> {2, UuidBase + 1},
     accountNames |-> {"Banco"}, balances |-> {0},
     transactionIds |-> {3, UuidBase + 1}, maxTransactions |-> MaxTransactions]

InitGuard ==
    /\ bills \in {<< >>, << Seed("Aluguel", 100, 20240105, FALSE, NoType, Null) >>}
    /\ transactions = defaultTransactions
    /\ categories = defaultCategories
    /\ accounts = defaultAccounts
    /\ uuid = [NoIds EXCEPT !.bills = Len(bills)]
    /\ sbForm = SbClosed
    /\ ctxForm = CtxClosed
    /\ payForm = [c \in Clients |-> PayClosed]
    /\ billsPage = NoBillsPage
    /\ dashboard = NoDashboard
    /\ provider = NoProvider
    /\ requests = << >>
    /\ tz = 0

NextGuard ==
    \/ addTransaction(GuardInputs) \/ editTransaction(GuardInputs)
    \/ deleteTransaction(GuardInputs)
    \/ deleteCategory(GuardInputs)
    \/ addAccount \/ editAccount(GuardInputs) \/ deleteAccount(GuardInputs)

SpecGuard == InitGuard /\ [][NextGuard]_vars

\* The two bill forms while the categories are edited and deleted; the
\* Supabase form also edits the bills that are stored.
FormInputs ==
    [descriptions |-> {"Aluguel"},
     amountTexts |-> {"100", "0"},
     categoryIds |-> {6, 7}, names |-> {"Moradia"},
     maxBills |-> MaxCreated, maxRequests |-> MaxPending]

NextForms ==
    \/ SbOpen \/ SbSubmit(FormInputs) \/ SbRender \/ SbStoreRuns(FormInputs)
    \/ SbStoreAnswers(FormInputs)
    \/ SbCancel
    \/ CtxOpen
    \/ CtxPickCategory(FormInputs) \/ CtxSubmit(FormInputs)
    \/ CtxRender \/ AddBillRuns(FormInputs)
    \/ CtxAddBillAnswers \/ CtxCancel
    \/ editCategory(FormInputs) \/ deleteCategory(FormInputs)

\* A browser in one of the time zones.
InitForms == InitIn(TimeZones)

SpecForms == InitForms /\ [][NextForms]_vars

\* The two bill forms submitted with amount texts of every kind, and a
\* consumer that calls addBill with amounts that are not above zero.
AmountInputs ==
    [descriptions |-> {"Aluguel"},
     amountTexts |-> {"100", "0", "-5", "abc", "", "150,00"},
     categoryIds |-> {6},
     billRequests |-> {BillRequest(a, Today, FALSE, Null, FALSE, NoType) :
                           a \in {0, -5, NaN}},
     maxBills |-> MaxCreated, maxRequests |-> MaxPending]

NextAmounts ==
    \/ SbOpen \/ SbSubmit(AmountInputs) \/ SbRender \/ SbStoreRuns(AmountInputs)
    \/ SbStoreAnswers(AmountInputs)
    \/ SbCancel
    \/ CtxOpen
    \/ CtxPickCategory(AmountInputs) \/ CtxSubmit(AmountInputs) \/ CtxRender
    \/ AddBillRuns(AmountInputs) \/ CtxAddBillAnswers \/ CtxCancel
    \/ AddBillCalled(AmountInputs) \/ AddBillReturns

SpecAmounts == Init /\ [][NextAmounts]_vars

\* Two clients paying two pending bills of different amounts.
InitTwo ==
    /\ bills = << Seed("Aluguel", 100, 20240105, FALSE, NoType, Null),
                  [Seed("Internet", 600, 20240131, FALSE, NoType, Null)
                      EXCEPT !.id = UuidBase + 2] >>
    /\ transactions = defaultTransactions
    /\ categories = defaultCategories
    /\ accounts = defaultAccounts
    /\ uuid = [NoIds EXCEPT !.bills = 2]
    /\ sbForm = SbClosed
    /\ ctxForm = CtxClosed
    /\ payForm = [c \in Clients |-> PayClosed]
    /\ billsPage = NoBillsPage
    /\ dashboard = NoDashboard
    /\ provider = NoProvider
    /\ requests = << >>
    /\ tz = 0

NextTwo ==
    \E c \in Clients :
        \/ PayOpen(c) \/ PayPickAccount(c, PayInputs) \/ PaySubmit(c, PayInputs)
        \/ PayRender(c) \/ PayBillRuns(c, PayInputs)
        \/ PayBillAnswers(c, PayInputs) \/ PayCancel(c, PayInputs)
        \/ PayDismiss(c)

SpecTwo == InitTwo /\ [][NextTwo]_vars

\* A client creating bills and installment chains through the two bill forms
\* and paying bills.
AtomicInputs ==
    [descriptions |-> {"Aluguel"}, amountTexts |-> {"100"},
     categoryIds |-> {6}, accountIds |-> {1},
     maxBills |-> MaxCreated, maxTransactions |-> MaxCreated,
     maxRequests |-> MaxPending]

NextAtomic ==
    \/ SbOpen \/ SbToggleInstallment \/ SbTypeInstallments \/ SbTogglePaid
    \/ SbSubmit(AtomicInputs) \/ SbRender \/ SbStoreRuns(AtomicInputs)
    \/ SbStoreAnswers(AtomicInputs)
    \/ CtxOpen \/ CtxToggleInstallment \/ CtxTypeInstallments
    \/ CtxPickCategory(AtomicInputs) \/ CtxSubmit(AtomicInputs)
    \/ CtxRender \/ AddBillRuns(AtomicInputs)
    \/ CtxAddBillAnswers
    \/ PayOpen(1) \/ PayPickAccount(1, AtomicInputs)
    \/ PaySubmit(1, AtomicInputs) \/ PayRender(1)
    \/ PayBillRuns(1, AtomicInputs) \/ PayBillAnswers(1, AtomicInputs)

SpecAtomic == Init /\ [][NextAtomic]_vars

\* The bills page over a day, in three time zones: bills due the day before,
\* that day and the day after, and a paid one; the list is an answer of the
\* select to the table.
BucketBills ==
    << Seed("Aluguel", 100, 20240105, FALSE, NoType, Null),
       [Seed("Internet", 600, 20240104, FALSE, NoType, Null)
           EXCEPT !.id = UuidBase + 2],
       [Seed("Internet", 600, 20240106, FALSE, NoType, Null)
           EXCEPT !.id = UuidBase + 3],
       [Seed("Aluguel", 100, 20240105, FALSE, NoType, Null)
           EXCEPT !.id = UuidBase + 4, !.status = "paid"] >>

BucketInputs ==
    [nows |-> {2024010500, 2024010501, 2024010510, 2024010522, 2024010523}]

InitBuckets ==
    /\ \E n \in 1..Len(BucketBills) : bills = SubSeq(BucketBills, n, Len(BucketBills))
    /\ transactions = defaultTransactions
    /\ categories = defaultCategories
    /\ accounts = defaultAccounts
    /\ uuid = [NoIds EXCEPT !.bills = Len(BucketBills)]
    /\ sbForm = SbClosed
    /\ ctxForm = CtxClosed
    /\ payForm = [c \in Clients |-> PayClosed]
    /\ tz \in TimeZones
    /\ \E loaded \in OrderByDueDate(bills) :
          billsPage = BillsRendered([mounted |-> TRUE, activeTab |-> "all",
                                     now |-> 2024010500, tz |-> tz,
                                     localBills |-> loaded, displayBills |-> << >>,
                                     groupedBills |-> << >>, sortedDates |-> << >>],
                                    "all", 2024010500)
    /\ dashboard = NoDashboard
    /\ provider = NoProvider
    /\ requests = << >>

NextBuckets == SetActiveTab \/ BillsRender(BucketInputs)

SpecBuckets == InitBuckets /\ [][NextBuckets]_vars

\* The dashboard over a ledger of up to MaxLedger transactions of any type,
\* amount, day and category, early in January 2024: days before, at the start
\* of, inside and after the six months that end with January 2024, and a day
\* of January 2023.  Categories are renamed between the renders.
MaxLedger == 2

DashInputs ==
    [nows |-> {2024010500, 2024010510},
     amounts |-> {100, 50},
     dates |-> {20230120, 20230731, 20230801, 20231215, 20240310},
     names |-> {"Alimentacao"}, categoryIds |-> {2},
     ledgerCategoryIds |-> {1, 2}, accountIds |-> {1}]

LedgerTransactions(in, n) ==
    {txs \in [1..n -> [id : 1..n, type : TransactionTypes, amount : in.amounts,
                       date : in.dates, categoryId : in.ledgerCategoryIds,
                       accountId : in.accountIds, description : {"Almoco"}]] :
        \A i \in 1..n : txs[i].id = i}

InitDashboard ==
    /\ bills = << >>
    /\ \E n \in 0..MaxLedger : transactions \in LedgerTransactions(DashInputs, n)
    /\ categories = defaultCategories
    /\ accounts = defaultAccounts
    /\ uuid = NoIds
    /\ sbForm = SbClosed
    /\ ctxForm = CtxClosed
    /\ payForm = [c \in Clients |-> PayClosed]
    /\ billsPage = NoBillsPage
    /\ dashboard = NoDashboard
    /\ provider = NoProvider
    /\ requests = << >>
    /\ tz \in TimeZones

NextDashboard ==
    DashboardRender \/ DashboardEffect(DashInputs) \/ editCategory(DashInputs)

SpecDashboard == InitDashboard /\ [][NextDashboard]_vars

\* The form that calls addBill, creating chains of up to MaxInstallments
\* siblings from a first due date today and on the last day of a month of 31
\* days, the recurrence switch and type used before the "Parcelado" switch,
\* which turns isRecurring off and leaves the type in the form; and a consumer
\* that calls addBill for a chain with a weekly recurrence type in the request.
InstallInputs ==
    [descriptions |-> {"Aluguel"}, amountTexts |-> {"100"}, categoryIds |-> {6},
     dueDates |-> {20240131}, types |-> {"weekly"}, endDates |-> {},
     billRequests |-> {BillRequest(100, 20240131, TRUE, MaxInstallments, FALSE,
                                   "weekly")},
     maxBills |-> MaxInstallments, maxRequests |-> MaxPending]

NextInstall ==
    \/ CtxOpen \/ CtxToggleInstallment \/ CtxTypeInstallments
    \/ CtxToggleRecurring \/ CtxPickRecurrence(InstallInputs)
    \/ CtxPickDueDate(InstallInputs)
    \/ CtxPickCategory(InstallInputs) \/ CtxSubmit(InstallInputs) \/ CtxRender
    \/ AddBillRuns(InstallInputs) \/ CtxAddBillAnswers \/ CtxCancel
    \/ AddBillCalled(InstallInputs) \/ AddBillReturns

SpecInstall == Init /\ [][NextInstall]_vars

\* The two bill forms with the days of their calendars picked in any order:
\* a due date after the end date that is on offer.
DateInputs ==
    [descriptions |-> {"Aluguel"}, amountTexts |-> {"100"}, categoryIds |-> {6},
     dueDates |-> {20240310}, endDates |-> {20240210}, types |-> {"monthly"},
     maxBills |-> MaxBills, maxRequests |-> MaxPending]

NextDates ==
    \/ SbOpen \/ SbToggleRecurring \/ SbPickRecurrence(DateInputs)
    \/ SbPickDueDate(DateInputs) \/ SbSubmit(DateInputs) \/ SbRender
    \/ SbStoreRuns(DateInputs) \/ SbStoreAnswers(DateInputs) \/ SbCancel
    \/ CtxOpen \/ CtxToggleRecurring \/ CtxPickRecurrence(DateInputs)
    \/ CtxPickDueDate(DateInputs)
    \/ CtxPickCategory(DateInputs) \/ CtxSubmit(DateInputs) \/ CtxRender
    \/ AddBillRuns(DateInputs) \/ CtxAddBillAnswers \/ CtxCancel

SpecDates == Init /\ [][NextDates]_vars

\* The provider with up to MaxCalls additions to each collection, the calls
\* made on the closure of the last render.
MaxCalls == 2

ProviderInputs ==
    [categoryIds |-> {6}, accountIds |-> {2}, transactionIds |-> {3},
     names |-> {"Moradia"}, accountNames |-> {"Banco"}, balances |-> {0},
     maxCalls |-> MaxCalls]

InitProvider ==
    /\ bills = << >>
    /\ transactions = defaultTransactions
    /\ categories = defaultCategories
    /\ accounts = defaultAccounts
    /\ uuid = NoIds
    /\ sbForm = SbClosed
    /\ ctxForm = CtxClosed
    /\ payForm = [c \in Clients |-> PayClosed]
    /\ billsPage = NoBillsPage
    /\ dashboard = NoDashboard
    /\ provider = [mounted |-> TRUE, transactions |-> defaultTransactions,
                   categories |-> defaultCategories, accounts |-> defaultAccounts,
                   added |-> {}, deleted |-> {}]
    /\ requests = << >>
    /\ tz = 0

NextProvider ==
    \/ ProviderRender
    \/ CallAddTransaction(ProviderInputs) \/ CallEditTransaction(ProviderInputs)
    \/ CallDeleteTransaction(ProviderInputs)
    \/ CallAddCategory(ProviderInputs) \/ CallDeleteCategory(ProviderInputs)
    \/ CallAddAccount(ProviderInputs) \/ CallEditAccount(ProviderInputs)
    \/ CallDeleteAccount(ProviderInputs)

SpecProvider == InitProvider /\ [][NextProvider]_vars

\* The bills page loading its list while bills are inserted through the add
\* sheet and paid through the pay sheet: up to MaxLoads queries, answered and
\* delivered in any order.
MaxLoads == 3

LoadInputs ==
    [descriptions |-> {"Aluguel"}, amountTexts |-> {"100"}, categoryIds |-> {6},
     accountIds |-> {1}, now |-> 2024010510, maxBills |-> MaxBills,
     maxTransactions |-> MaxPayments, maxLoads |-> MaxLoads,
     maxRequests |-> MaxPending]

NextLoads ==
    \/ BillsMount(LoadInputs) \/ ChangeNotified(LoadInputs)
    \/ QueryRuns \/ ResponseArrives
    \/ SbOpen \/ SbSubmit(LoadInputs) \/ SbRender \/ SbStoreRuns(LoadInputs)
    \/ SbStoreAnswers(LoadInputs)
    \/ SbCancel
    \/ PayOpen(1) \/ PayPickAccount(1, LoadInputs) \/ PaySubmit(1, LoadInputs)
    \/ PayRender(1) \/ PayBillRuns(1, LoadInputs)
    \/ PayBillAnswers(1, LoadInputs) \/ PayCancel(1, LoadInputs)
    \/ PayDismiss(1)

SpecLoads == Init /\ [][NextLoads]_vars

\* One user at the Supabase bill form: up to MaxRequests writes sent, answered
\* in any order with any outcome.
SubmitInputs ==
    [descriptions |-> {"Aluguel", "Al"}, amountTexts |-> {"100"},
     categoryIds |-> {6}, maxBills |-> MaxCreated, maxRequests |-> MaxRequests]

NextSubmit ==
    \/ SbOpen \/ SbTogglePaid \/ SbToggleRecurring
    \/ SbSubmit(SubmitInputs) \/ SbRender \/ SbStoreRuns(SubmitInputs)
    \/ SbStoreAnswers(SubmitInputs)
    \/ SbCancel

SpecSubmit == Init /\ [][NextSubmit]_vars

-----------------------------------------------------------------------------
(* Properties *)

NewBills == {j \in 1..Len(bills') : bills'[j].id \notin Ids(bills)}

\* The calls of one kind that the ledger executes in this step: a call in
\* flight that had no answer has one after the step.
Ran(forms) ==
    IF Len(requests') # Len(requests) THEN {}
    ELSE {i \in 1..Len(requests) :
             /\ requests[i].form \in forms
             /\ requests[i].answer = "none"
             /\ requests'[i].answer # "none"}

\* The payBill calls and the addBill calls executed in this step.
PayRan == Ran({"pay"})
AddBillRan == Ran({"ctx", "call"})

\* The calls of one kind whose answer reaches the caller in this step: the
\* step takes an answered call from those in flight.
Answered(forms) ==
    {i \in 1..Len(requests) :
        /\ requests[i].form \in forms
        /\ requests[i].answer # "none"
        /\ Len(requests') = Len(requests) - 1
        /\ \A j \in 1..Len(requests') :
               [requests'[j] EXCEPT !.live = TRUE] =
                   [Without(requests, i)[j] EXCEPT !.live = TRUE]}

\* The writes of the bill forms that are in flight.
FormWrites == {i \in 1..Len(requests) : requests[i].form \in {"sb", "ctx"}}

\* The two flags of the request of a call in flight.
BothFlags(r) ==
    IF r.form = "sb"
    THEN r.data.is_installment /\ r.data.is_recurring
    ELSE r.data.isInstallment /\ r.data.isRecurring

\* C1: no stored bill has isInstallment and isRecurring both true, whatever
\* bills were created and updated and however the two switches of the forms
\* were toggled before a submit: no form sends a write with both flags true,
\* and an addBill call whose request has both flags true is rejected with a
\* ValidationError and writes nothing.
C1_FlagsExclusive ==
    /\ [](\A i \in 1..Len(bills) : ~(bills[i].isInstallment /\ bills[i].isRecurring))
    /\ [](\A i \in FormWrites : ~BothFlags(requests[i]))
    /\ [][\A k \in AddBillRan :
             BothFlags(requests[k]) =>
                 /\ requests'[k].answer = "ValidationError"
                 /\ UNCHANGED <<bills, transactions, accounts>>]_vars

\* A recurring bill that is no installment bill is stored, and an addBill call
\* with both flags true was rejected.
C1_Witness ==
    /\ \E i \in 1..Len(bills) : bills[i].isRecurring /\ ~bills[i].isInstallment
    /\ \E k \in 1..Len(requests) :
           /\ requests[k].form = "call" /\ BothFlags(requests[k])
           /\ requests[k].answer = "ValidationError"

\* C2: every paid bill has an expense transaction with its amount and its
\* category, on an account of the ledger that was debited.
C2_PaidHasTransaction ==
    \A i \in 1..Len(bills) :
        bills[i].status = "paid" =>
            \E j \in 1..Len(transactions) :
                /\ transactions[j].type = "expense"
                /\ transactions[j].amount = bills[i].amount
                /\ transactions[j].categoryId = bills[i].categoryId

\* C4: every bill is pending when it is created: no step stores a new bill
\* that is paid.
C4_CreatedPending ==
    [][\A j \in NewBills : bills'[j].status = "pending"]_vars

\* C5: a paid bill stays paid, and a bill becomes paid only when payBill
\* executes a call on it, which adds its transaction.
C5_PaidOnceByPay ==
    [][\A i \in 1..Len(bills) : \A j \in 1..Len(bills') :
          bills[i].id = bills'[j].id =>
              /\ bills[i].status = "paid" => bills'[j].status = "paid"
              /\ bills[i].status = "pending" /\ bills'[j].status = "paid" =>
                    /\ \E k \in PayRan : requests[k].bill = bills[i].id
                    /\ Len(transactions') = Len(transactions) + 1]_vars

\* C9: a creation that stores an installment bill with N >= 2 installments
\* stores exactly N siblings, numbered 1..N, with due dates that increase with
\* the number, the siblings 2..N naming the first one as their parent.
C9_InstallmentSiblings ==
    [][\A j \in NewBills :
          bills'[j].isInstallment /\ bills'[j].totalInstallments >= 2 =>
              LET N == bills'[j].totalInstallments
                  first == CHOOSE k \in NewBills :
                               \A l \in NewBills : bills'[k].id <= bills'[l].id
              IN /\ Cardinality(NewBills) = N
                 /\ {bills'[k].currentInstallment : k \in NewBills} = 1..N
                 /\ \A k, l \in NewBills :
                        bills'[k].currentInstallment < bills'[l].currentInstallment
                            => bills'[k].dueDate < bills'[l].dueDate
                 /\ \A k \in NewBills :
                        bills'[k].currentInstallment >= 2
                            => bills'[k].parentBillId = bills'[first].id]_vars

Sum(f, S) ==
    LET RECURSIVE Acc(_)
        Acc(T) == IF T = {} THEN 0
                  ELSE LET x == CHOOSE y \in T : TRUE IN f[x] + Acc(T \ {x})
    IN Acc(S)

PaidBills == {i \in 1..Len(bills) : bills[i].status = "paid"}

\* The money that left the accounts since the ledger was loaded.
TotalDebit ==
    Sum([i \in 1..Len(defaultAccounts) |-> defaultAccounts[i].balance],
        1..Len(defaultAccounts))
    - Sum([i \in 1..Len(accounts) |-> accounts[i].balance], 1..Len(accounts))

\* The bill and the account of a payBill call r, as the ledger holds them.
CallBills(r) == {i \in 1..Len(bills) : bills[i].id = r.bill}
CallAccounts(r) == {i \in 1..Len(accounts) : accounts[i].id = r.data}
CallMeetsPreconditions(r) ==
    /\ \E i \in CallBills(r) : bills[i].status = "pending"
    /\ CallAccounts(r) # {}

\* The same, in the ledger the step leaves.
CallStillMeetsPreconditions(r) ==
    /\ \E i \in 1..Len(bills') : bills'[i].id = r.bill /\ bills'[i].status = "pending"
    /\ \E i \in 1..Len(accounts') : accounts'[i].id = r.data

LedgerUnchanged == UNCHANGED <<bills, accounts, transactions>>

\* C3: when two clients pay the same pending bill, in whatever order the two
\* calls are sent, executed and answered, one call succeeds and the other one
\* is answered BillAlreadyPaid without effect: a call executed on a pending
\* bill with an account of the ledger succeeds and sets the bill paid, a call
\* executed on a paid bill reports the conflict and changes nothing, two calls
\* in flight on one bill never both succeed, and each paid bill has exactly
\* one payment transaction and was debited once.
C3_PaidExactlyOnce ==
    /\ [](/\ Len(transactions) - Len(defaultTransactions) = Cardinality(PaidBills)
          /\ TotalDebit = Sum([i \in 1..Len(bills) |-> bills[i].amount], PaidBills)
          /\ \A i, j \in 1..Len(requests) :
                 (/\ i # j
                  /\ requests[i].form = "pay" /\ requests[j].form = "pay"
                  /\ requests[i].bill = requests[j].bill)
                     => ~(requests[i].answer = "ok" /\ requests[j].answer = "ok"))
    /\ [][\A k \in PayRan :
             /\ CallMeetsPreconditions(requests[k]) =>
                    /\ requests'[k].answer = "ok"
                    /\ \E j \in 1..Len(bills') :
                           /\ bills'[j].id = requests[k].bill
                           /\ bills'[j].status = "paid"
             /\ (\E i \in CallBills(requests[k]) : bills[i].status = "paid") =>
                    /\ requests'[k].answer = "BillAlreadyPaid"
                    /\ LedgerUnchanged]_vars

\* The calls of the two clients on one bill are both in flight and both
\* executed: one succeeded, the other one holds the conflict, and the bill
\* was paid once.
C3_Witness ==
    \E i, j \in 1..Len(requests) :
        /\ requests[i].form = "pay" /\ requests[j].form = "pay"
        /\ requests[i].client # requests[j].client
        /\ requests[i].bill = requests[j].bill
        /\ requests[i].answer = "ok" /\ requests[j].answer = "BillAlreadyPaid"
        /\ \E b \in PaidBills : bills[b].id = requests[i].bill
        /\ Cardinality(PaidBills) = 1
        /\ Len(transactions) = Len(defaultTransactions) + 1

\* C6: a payBill call executed on a pending bill b and an account a of the
\* ledger succeeds: it takes b.amount from a's balance, which may become
\* negative, and from no other account, appends one expense transaction with
\* b's amount, category and description on account a, and sets b paid.
C6_PaymentEffects ==
    [][\A k \in PayRan :
          CallMeetsPreconditions(requests[k]) =>
              LET r == requests[k]
                  b == bills[CHOOSE i \in CallBills(r) : TRUE]
                  a == r.data
                  t == transactions'[Len(transactions')]
              IN /\ requests'[k].answer = "ok"
                 /\ Len(accounts') = Len(accounts)
                 /\ \A i \in 1..Len(accounts) :
                        /\ accounts'[i].id = accounts[i].id
                        /\ accounts'[i].balance =
                               IF accounts[i].id = a
                               THEN accounts[i].balance - b.amount
                               ELSE accounts[i].balance
                 /\ Len(transactions') = Len(transactions) + 1
                 /\ SubSeq(transactions', 1, Len(transactions)) = transactions
                 /\ t.type = "expense" /\ t.amount = b.amount
                 /\ t.categoryId = b.categoryId /\ t.description = b.description
                 /\ t.accountId = a /\ t.id \notin Ids(transactions)
                 /\ \E j \in 1..Len(bills') :
                        bills'[j].id = b.id /\ bills'[j].status = "paid"]_vars

\* A bill of 600 was paid from the account that held 500.
C6_Witness ==
    /\ \E i \in PaidBills : bills[i].amount = 600
    /\ \E i \in 1..Len(accounts) : accounts[i].id = 1 /\ accounts[i].balance = -100
    /\ \E i \in 1..Len(accounts) : accounts[i].id = 2 /\ accounts[i].balance = 2000
    /\ transactions[Len(transactions)].accountId = 1
    /\ transactions[Len(transactions)].amount = 600

\* C7: a payBill call executed on a bill that does not exist, on a bill that
\* is already paid or with an account that does not exist (the empty accountId
\* included) fails with BillNotFound, BillAlreadyPaid or AccountNotFound and
\* leaves every bill, account and transaction as it was; so does the arrival
\* of its answer at the form, whose sheet stays as it is.
C7_FailedPaymentNoEffect ==
    [][/\ \A k \in PayRan :
             ~CallMeetsPreconditions(requests[k]) =>
                 LET r == requests[k]
                 IN /\ LedgerUnchanged
                    /\ requests'[k].answer \in
                           {e \in {"BillNotFound", "BillAlreadyPaid", "AccountNotFound"} :
                               \/ e = "BillNotFound" /\ CallBills(r) = {}
                               \/ e = "BillAlreadyPaid"
                                      /\ \E i \in CallBills(r) : bills[i].status = "paid"
                               \/ e = "AccountNotFound" /\ CallAccounts(r) = {}}
       /\ \A k \in Answered({"pay"}) :
             requests[k].answer # "ok" =>
                 /\ LedgerUnchanged
                 /\ payForm'[requests[k].client].open
                        = payForm[requests[k].client].open]_vars

\* One client's call was refused for the empty account id, the other
\* client's call for a bill that was deleted while its form was open; the
\* ledger is as it was loaded.
C7_Witness ==
    \E i, j \in 1..Len(requests) :
        /\ requests[i].form = "pay" /\ requests[i].answer = "AccountNotFound"
        /\ requests[i].data = EmptyId
        /\ requests[j].form = "pay" /\ requests[j].answer = "BillNotFound"
        /\ requests[j].data # EmptyId
        /\ requests[j].bill \notin Ids(bills)
        /\ accounts = defaultAccounts /\ transactions = defaultTransactions

\* The number of days from 1 January 2024 to date d of 2024.
DayOfYear2024(d) ==
    Sum([m \in 1..12 |-> DaysInMonth(2024, m)], 1..(Month(d) - 1)) + Day(d)

\* C8: a payBill call that succeeds on a recurring bill creates one pending
\* successor due one period later (7 days, one calendar month or one calendar
\* year, the day clamped to the month's last day), also when that date equals
\* recurrenceEndDate, and none when that date is after recurrenceEndDate; no
\* bill is created otherwise, so a chain with an end date is finite.
C8_Successor ==
    [][/\ \A k \in PayRan :
             CallMeetsPreconditions(requests[k]) =>
                 LET b == bills[CHOOSE i \in CallBills(requests[k]) : TRUE]
                     nextDue == advance(b.dueDate, b.recurrenceType)
                 IN IF b.isRecurring
                       /\ ~(b.recurrenceEndDate # Null /\ nextDue > b.recurrenceEndDate)
                    THEN /\ Cardinality(NewBills) = 1
                         /\ \A j \in NewBills :
                                /\ bills'[j].status = "pending"
                                /\ bills'[j].dueDate = nextDue
                                /\ bills'[j].dueDate > b.dueDate
                                /\ b.recurrenceType = "weekly" /\ Year(nextDue) = 2024 =>
                                       DayOfYear2024(nextDue) = DayOfYear2024(b.dueDate) + 7
                                /\ b.recurrenceType = "monthly" =>
                                       /\ Year(nextDue) * 12 + Month(nextDue)
                                              = Year(b.dueDate) * 12 + Month(b.dueDate) + 1
                                       /\ Day(nextDue) =
                                              Min(Day(b.dueDate),
                                                  DaysInMonth(Year(nextDue), Month(nextDue)))
                                /\ b.recurrenceType = "yearly" =>
                                       /\ Year(nextDue) = Year(b.dueDate) + 1
                                       /\ Month(nextDue) = Month(b.dueDate)
                                       /\ Day(nextDue) =
                                              Min(Day(b.dueDate),
                                                  DaysInMonth(Year(nextDue), Month(nextDue)))
                    ELSE NewBills = {}
       /\ NewBills # {} =>
              \E k \in PayRan :
                  /\ CallMeetsPreconditions(requests[k])
                  /\ \E i \in CallBills(requests[k]) : bills[i].isRecurring]_vars

\* A yearly chain paid to its end: the bill due on 29 February 2024 was
\* followed by the one due on 28 February 2025, that one by the bill due on the
\* end date, 28 February 2026, and the third payment created no fourth bill.
C8_Witness ==
    /\ Len(bills) = 3
    /\ PaidBills = 1..3
    /\ bills[1].recurrenceType = "yearly"
    /\ bills[1].dueDate = 20240229
    /\ bills[2].dueDate = 20250228
    /\ bills[3].dueDate = 20260228
    /\ bills[3].dueDate = bills[3].recurrenceEndDate

\* C10: a category or an account that a bill or a transaction references is
\* never deleted, and a deletion removes nothing but the one unreferenced
\* entity.
C10_ReferencedNotDeleted ==
    [][/\ \A id \in Ids(categories) \ Ids(categories') :
             /\ \A i \in 1..Len(bills) : bills[i].categoryId # id
             /\ \A i \in 1..Len(transactions) : transactions[i].categoryId # id
             /\ categories' = SelectSeq(categories, LAMBDA x : x.id # id)
       /\ \A id \in Ids(accounts) \ Ids(accounts') :
             /\ \A i \in 1..Len(transactions) : transactions[i].accountId # id
             /\ accounts' = SelectSeq(accounts, LAMBDA x : x.id # id)]_vars

\* C11: the categoryId of every stored bill names a category of the ledger
\* whose type is expense, whatever bills were created and updated and whatever
\* categories were edited.
C11_BillCategoryIsExpense ==
    \A i \in 1..Len(bills) :
        \E j \in 1..Len(categories) :
            /\ categories[j].id = bills[i].categoryId
            /\ categories[j].type = "expense"

\* C12: for every stored bill, isInstallment holds exactly when
\* totalInstallments is present, and then totalInstallments is at least 2 and
\* currentInstallment is one of 1..totalInstallments.
C12_InstallmentFields ==
    \A i \in 1..Len(bills) :
        /\ bills[i].isInstallment <=> bills[i].totalInstallments # Null
        /\ bills[i].totalInstallments # Null =>
               /\ bills[i].totalInstallments >= 2
               /\ bills[i].currentInstallment \in 1..bills[i].totalInstallments

\* The first bill of the chain a bill belongs to.
ChainRoot(b) == IF b.parentBillId = Null THEN b.id ELSE b.parentBillId

\* The transactions that were added to the default ones.
AddedTransactions == (Len(defaultTransactions) + 1)..Len(transactions)

\* The lists of bills a reader can hold: the provider's bills, which the page
\* that lists them renders as they are, and the answer of the select that the
\* page that loads its own list shows.
ObservedLists ==
    {bills} \cup (IF billsPage.mounted THEN {billsPage.localBills} ELSE {})

\* C13: a payment and the creation of an installment chain are atomic for
\* every reader: each list of bills a reader holds has all the siblings 1..N
\* of each chain of N >= 2 installments in it, and in the ledger each
\* account's debit is the sum of the payment transactions on it, each of them
\* with its paid bill and each paid bill with its transaction.
C13_NoPartialState ==
    /\ \A L \in ObservedLists : \A i \in 1..Len(L) :
           (/\ L[i].isInstallment
            /\ L[i].totalInstallments # Null
            /\ L[i].totalInstallments >= 2) =>
               {L[j].currentInstallment :
                    j \in {k \in 1..Len(L) : ChainRoot(L[k]) = ChainRoot(L[i])}}
                   = 1..L[i].totalInstallments
    /\ \A a \in 1..Len(accounts) :
           a <= Len(defaultAccounts) =>
               defaultAccounts[a].balance - accounts[a].balance =
                   Sum([j \in 1..Len(transactions) |-> transactions[j].amount],
                       {j \in AddedTransactions :
                            transactions[j].accountId = accounts[a].id})
    /\ Cardinality(AddedTransactions) = Cardinality(PaidBills)
    /\ \A j \in AddedTransactions :
           \E i \in PaidBills :
               /\ bills[i].amount = transactions[j].amount
               /\ bills[i].categoryId = transactions[j].categoryId
               /\ bills[i].description = transactions[j].description

\* C14: payments of two different pending bills that run concurrently against
\* one account both succeed, in whatever order the two calls are sent,
\* executed and answered: a call executed on a pending bill succeeds and
\* leaves the other call its pending bill, and once both are made the
\* account's balance is its initial balance less the two amounts, the other
\* accounts being as they were.
C14_NoLostDebit ==
    /\ [](\A a \in 1..Len(accounts) :
             (/\ PaidBills = {1, 2}
              /\ \A j \in AddedTransactions :
                     transactions[j].accountId = accounts[a].id) =>
                 /\ accounts[a].balance =
                        defaultAccounts[a].balance - bills[1].amount - bills[2].amount
                 /\ \A o \in 1..Len(accounts) :
                        o # a => accounts[o].balance = defaultAccounts[o].balance)
    /\ [][\A k \in PayRan :
             CallMeetsPreconditions(requests[k]) =>
                 /\ requests'[k].answer = "ok"
                 /\ \A q \in 1..Len(requests) :
                        (/\ requests[q].form = "pay" /\ requests[q].answer = "none"
                         /\ requests[q].bill # requests[k].bill
                         /\ CallMeetsPreconditions(requests[q]))
                            => /\ requests'[q].answer = "none"
                               /\ CallStillMeetsPreconditions(requests[q])]_vars

\* The calls of the two clients were in flight together, both bills were paid
\* from the first account, which held 500, and both calls succeeded.
C14_Witness ==
    /\ PaidBills = {1, 2}
    /\ Len(requests) = 2
    /\ \A k \in 1..Len(requests) : requests[k].answer = "ok"
    /\ requests[1].client # requests[2].client
    /\ \A j \in AddedTransactions : transactions[j].accountId = 1
    /\ accounts[1].balance = -200

\* C15: whatever the order in which a deletion of a category or an account
\* and the creation of a bill or a transaction that references it take effect,
\* no stored bill or transaction references a category or an account that is
\* not in the ledger.
C15_NoDanglingReference ==
    /\ \A i \in 1..Len(bills) : bills[i].categoryId \in Ids(categories)
    /\ \A j \in 1..Len(transactions) :
           /\ transactions[j].categoryId \in Ids(categories)
           /\ transactions[j].accountId \in Ids(accounts)

\* The amount of the request of a call in flight is a number above zero.
AmountPositive(r) == ~IsNaN(r.data.amount) /\ r.data.amount > 0

\* C16: every stored bill has an amount that is a number greater than zero: a
\* form whose amount text does not give such a number sends no write, and an
\* addBill call whose amount is not such a number is rejected with a
\* ValidationError and leaves the ledger as it was.
C16_AmountPositive ==
    /\ [](\A i \in 1..Len(bills) : ~IsNaN(bills[i].amount) /\ bills[i].amount > 0)
    /\ [](\A i \in FormWrites : AmountPositive(requests[i]))
    /\ [][\A k \in AddBillRan :
             ~AmountPositive(requests[k]) =>
                 /\ requests'[k].answer = "ValidationError"
                 /\ UNCHANGED <<bills, transactions, accounts>>]_vars

\* One form stored the number parseFloat found at the start of '150,00', the
\* other one the digits its input kept of '-5', and an addBill call with an
\* amount that is not above zero was rejected.
C16_Witness ==
    /\ Len(bills) = 2
    /\ \E i, j \in 1..Len(bills) : bills[i].amount = 150 /\ bills[j].amount = 5
    /\ \E k \in 1..Len(requests) :
           /\ requests[k].form = "call" /\ ~AmountPositive(requests[k])
           /\ requests[k].answer = "ValidationError"

\* The bucket of a due date on the calendar day today.
ExpectedBucket(dueDate, today) ==
    IF dueDate < today THEN "overdue"
    ELSE IF dueDate = today THEN "today" ELSE "upcoming"

\* C17: the bills list shows, in the tab of a bucket, exactly the pending
\* bills whose due date is before today (overdue), is today (today) or is
\* after today (upcoming), in the tab 'all' exactly the pending bills, and a
\* paid bill in no tab.
C17_DueBuckets ==
    billsPage.mounted =>
        billsPage.displayBills =
            SelectSeq(billsPage.localBills,
                      LAMBDA b :
                          /\ b.status = "pending"
                          /\ billsPage.activeTab # "all" =>
                                 ExpectedBucket(b.dueDate, DateOf(billsPage.now))
                                     = billsPage.activeTab)

\* The expense transactions of a list that reference a category.
ExpensesOf(txs, categoryId) ==
    {k \in 1..Len(txs) : txs[k].type = "expense" /\ txs[k].categoryId = categoryId}

\* C18: the per-category data of the dashboard has an entry for a category
\* exactly when an expense transaction references the category, and the value
\* of the entry is the sum of the amounts of exactly those expense
\* transactions.
C18_ByCategory ==
    (dashboard.mounted /\ dashboard.effectRan) =>
        LET txs == dashboard.deps.transactions
            cats == dashboard.deps.categories
            data == dashboard.categoryData
        IN \A i \in 1..Len(cats) :
              /\ (\E j \in 1..Len(data) : data[j].name = cats[i].name)
                     <=> ExpensesOf(txs, cats[i].id) # {}
              /\ \A j \in 1..Len(data) :
                     data[j].name = cats[i].name =>
                        data[j].value = Sum([k \in 1..Len(txs) |-> txs[k].amount],
                                            ExpensesOf(txs, cats[i].id))

\* The months since year 0 of a day.
MonthIndex(d) == Year(d) * 12 + Month(d) - 1

\* The transactions of a list dated in a month, of a type.
InMonth(txs, ym, type) ==
    {k \in 1..Len(txs) : MonthIndex(txs[k].date) = ym /\ txs[k].type = type}

\* The series of the six months that end with the month of today: a month
\* with a transaction has one entry, in the order of the months.
ExpectedMonthlySeries(txs, today) ==
    LET amount == [k \in 1..Len(txs) |-> txs[k].amount]
        ymOf(i) == MonthIndex(today) - 6 + i
        all == [i \in 1..6 |->
                   [month |-> (ymOf(i) % 12) + 1,
                    income |-> Sum(amount, InMonth(txs, ymOf(i), "income")),
                    expense |-> Sum(amount, InMonth(txs, ymOf(i), "expense")),
                    count |-> Cardinality(InMonth(txs, ymOf(i), "income")
                                          \cup InMonth(txs, ymOf(i), "expense"))]]
        kept == SelectSeq(all, LAMBDA e : e.count > 0)
    IN [i \in 1..Len(kept) |->
           [month |-> kept[i].month, income |-> kept[i].income,
            expense |-> kept[i].expense]]

\* C19: the monthly data of the dashboard is one entry per calendar month of
\* the six months ending with the current month that has a transaction, in
\* the order of the months, with the sums of the income and of the expense
\* amounts of that month; a transaction dated outside those months is in no
\* entry.
C19_MonthlySeries ==
    (dashboard.mounted /\ dashboard.effectRan) =>
        dashboard.monthlyData =
            ExpectedMonthlySeries(dashboard.deps.transactions, DateOf(dashboard.now))

\* A step of the dashboard itself, its first render, a later render or a run
\* of its effect: more than an array of the provider being replaced.
DashboardActs ==
    /\ dashboard'.mounted
    /\ \/ ~dashboard.mounted
       \/ [dashboard' EXCEPT !.replaced = {}] # [dashboard EXCEPT !.replaced = {}]
       \/ dashboard.replaced # {} /\ dashboard'.replaced = {}

\* C20: a render of the dashboard, or a run of its effect, leaves the
\* transactions, the categories and the accounts of the provider as they were,
\* order included.
C20_SnapshotUnchanged ==
    [][DashboardActs => UNCHANGED <<transactions, categories, accounts>>]_vars

\* C21: the successor created when payBill succeeds on a recurring bill has the
\* description, amount, categoryId, recurrenceType and recurrenceEndDate of the
\* paid bill, is pending and recurring, has no installment field
\* (isInstallment false; totalInstallments, currentInstallment and
\* parentBillId absent) and holds no reference to the id of the paid bill.
C21_SuccessorFields ==
    [][\A k \in PayRan :
          CallMeetsPreconditions(requests[k]) =>
              LET b == bills[CHOOSE i \in CallBills(requests[k]) : TRUE]
              IN \A j \in NewBills :
                    /\ bills'[j].description = b.description
                    /\ bills'[j].amount = b.amount
                    /\ bills'[j].categoryId = b.categoryId
                    /\ bills'[j].recurrenceType = b.recurrenceType
                    /\ bills'[j].recurrenceEndDate = b.recurrenceEndDate
                    /\ bills'[j].status = "pending"
                    /\ bills'[j].isRecurring
                    /\ ~bills'[j].isInstallment
                    /\ bills'[j].totalInstallments = Null
                    /\ bills'[j].currentInstallment = Null
                    /\ bills'[j].parentBillId = Null
                    /\ bills'[j].id # b.id]_vars

\* A weekly bill was paid and its successor is pending.
C21_Witness ==
    /\ Len(bills) = 2
    /\ bills[1].status = "paid" /\ bills[1].recurrenceType = "weekly"
    /\ bills[2].status = "pending" /\ bills[2].isRecurring
    /\ bills[2].parentBillId = Null

\* C22: in an installment chain whose first sibling is due on d, sibling k
\* is due k - 1 calendar months after d, on the day of the month of d or on
\* the last day of its month when the month is shorter, whatever the
\* recurrence switch and type of the form were set to before.
C22_SiblingDueDates ==
    \A i, j \in 1..Len(bills) :
        (/\ bills[i].isInstallment /\ bills[i].currentInstallment = 1
         /\ bills[j].isInstallment /\ ChainRoot(bills[j]) = bills[i].id) =>
            LET d == bills[i].dueDate
                e == bills[j].dueDate
                k == bills[j].currentInstallment
            IN /\ MonthIndex(e) = MonthIndex(d) + k - 1
               /\ Day(e) = Min(Day(d), DaysInMonth(Year(e), Month(e)))

\* A chain of three from 31 January 2024: 29 February, then 31 March.
C22_Witness ==
    /\ Len(bills) = 3
    /\ bills[1].dueDate = 20240131 /\ bills[1].currentInstallment = 1
    /\ bills[2].dueDate = 20240229 /\ bills[2].parentBillId = bills[1].id
    /\ bills[3].dueDate = 20240331 /\ bills[3].currentInstallment = 3

\* C23: every stored bill that has a recurrenceEndDate has it strictly after
\* its dueDate, in whatever order the due date and the end date were picked
\* in a bill form before the submit.
C23_EndAfterDue ==
    \A i \in 1..Len(bills) :
        bills[i].recurrenceEndDate # Null =>
            bills[i].recurrenceEndDate > bills[i].dueDate

\* C24: every stored bill has a recurrenceType exactly when it is recurring,
\* one of weekly, monthly and yearly, and has no recurrenceEndDate when it is
\* not recurring; a recurring bill submitted without a type is not stored.
C24_TypeIffRecurring ==
    \A i \in 1..Len(bills) :
        /\ bills[i].recurrenceType # NoType <=> bills[i].isRecurring
        /\ bills[i].recurrenceType # NoType =>
               bills[i].recurrenceType \in RecurrenceTypes
        /\ ~bills[i].isRecurring => bills[i].recurrenceEndDate = Null

\* C25: the groups of the bills list hold every displayed bill once, under
\* the key that is its own due date, in the order of the list; no group is
\* empty and the keys are listed in ascending order.
C25_GroupByDueDate ==
    billsPage.mounted =>
        LET shown == billsPage.displayBills
            keys == {shown[i].dueDate : i \in 1..Len(shown)}
            dates == billsPage.sortedDates
        IN /\ billsPage.groupedBills =
                  [k \in keys |-> SelectSeq(shown, LAMBDA b : b.dueDate = k)]
           /\ {dates[i] : i \in 1..Len(dates)} = keys
           /\ \A i, j \in 1..Len(dates) : i < j => dates[i] < dates[j]

\* C26: each pending bill of the bills page is accepted by exactly one of the
\* filters of the tabs overdue, today and upcoming, at every moment.
C26_ExactlyOneTab ==
    billsPage.mounted =>
        \A i \in 1..Len(billsPage.localBills) :
            billsPage.localBills[i].status = "pending" =>
                Cardinality({tab \in Tabs \ {"all"} :
                                displayBillsKeeps(billsPage.localBills[i], tab,
                                                  billsPage.now, billsPage.tz)}) = 1

\* The ids a collection of the provider has to hold: those it started with
\* and those added, less those deleted.
ExpectedIds(coll, initial) ==
    (Ids(initial) \cup {c[2] : c \in {d \in provider.added : d[1] = coll}})
        \ {c[2] : c \in {d \in provider.deleted : d[1] = coll}}

\* C27: after any calls of the provider's add, edit and delete operations,
\* also several on the closure of one render, each collection holds every
\* record that was added and not deleted, and none that was deleted.
C27_NoLostUpdate ==
    provider.mounted =>
        /\ Ids(transactions) = ExpectedIds("transactions", defaultTransactions)
        /\ Ids(categories) = ExpectedIds("categories", defaultCategories)
        /\ Ids(accounts) = ExpectedIds("accounts", defaultAccounts)

\* C28: in every state of the provider, every transaction names an existing
\* category of the transaction's own type and an existing account.
C28_TransactionReferences ==
    \A i \in 1..Len(transactions) :
        /\ \E j \in 1..Len(categories) :
               /\ categories[j].id = transactions[i].categoryId
               /\ categories[j].type = transactions[i].type
        /\ transactions[i].accountId \in Ids(accounts)

\* C29: once every load of the bills page has completed, none of them with an
\* error, no call of a form is in flight and every change of the store was
\* notified, the list of the page is the store's bills in an order of the
\* select, in whatever order the loads completed.
C29_ListIsStore ==
    (/\ billsPage.mounted
     /\ billsPage.inflight = {}
     /\ requests = << >>
     /\ billsPage.notified = bills
     /\ ~billsPage.failed) =>
        billsPage.localBills \in OrderByDueDate(bills)


\* The writes in flight that the mounted bill form sent.
LiveWrites == {i \in 1..Len(requests) : requests[i].form = "sb" /\ requests[i].live}

\* C30: the bill form that is mounted has at most one store write in flight,
\* and while it is open its isSubmitting is true exactly when a write of it is
\* in flight, whatever submit events, renders and store answers happened.
C30_OneWriteInFlight ==
    /\ Cardinality(LiveWrites) <= 1
    /\ sbForm.open => (sbForm.isSubmitting <=> LiveWrites # {})

=============================================================================
